---- MODULE Spec2Model ----
(***************************************************************************)
(* Round lifecycle and settlement engine of Xelma-Backend:                 *)
(*   PredictionService.submitPrediction  (src/src/services/prediction.service.ts) *)
(*   ResolutionService.resolveRound      (src/unnamed/part_005)            *)
(*   decimal helpers                     (src/src/utils/decimal.util.ts)   *)
(* The database is PostgreSQL behind Prisma: monetary columns are          *)
(* DECIMAL(20,8).  Monetary values are modelled as whole numbers of the    *)
(* smallest stored unit (1e-8); Decimal values computed in the service are *)
(* modelled digit by digit, so that their rounding is the library's.       *)
(***************************************************************************)
EXTENDS Integers, Sequences, FiniteSets, TLC

\* ---------------------------------------------------------------- bounds
\* Largest stake amount, balance and price drawn as an input (stored units).
MaxAmount == 2
MaxBalance == 2
MaxPrice == 3
\* The start price of the rounds, and the edge shared by their two ranges.
MidPrice == 2
\* Calls of one user issued together; calls of any user issued together.
NumParallel == 3
NumSubmits == 2
NumUsers == 2
\* Users staking on the round that is resolved, and calls resolving it.
NumStakers == 3
NumResolves == 2
\* Round creations issued together.
NumStarts == 3
NumJobs == 2
MaxTime == 1
MaxTimers == 2
MaxFetches == 3
MaxFailTicks == 1

\* ------------------------------------------------------- decimal helpers
\* Significant digits kept by every Decimal operation (decimal.js default
\* configuration, used unchanged by the Decimal the service imports).
PRECISION == 20

\* A Decimal value >= 0: an integer part and the digits after the point
\* (no trailing zero), in units of the smallest stored amount.
Dec(i, f) == [int |-> i, frac |-> f]

RECURSIVE NumDigits(_)
NumDigits(n) == IF n = 0 THEN 0 ELSE 1 + NumDigits(n \div 10)

RECURSIVE StripZeros(_)
StripZeros(f) ==
  IF f = <<>> THEN f
  ELSE IF f[Len(f)] = 0 THEN StripZeros(SubSeq(f, 1, Len(f) - 1))
  ELSE f

RECURSIVE LeadingZeros(_)
LeadingZeros(f) ==
  IF f = <<>> THEN 0
  ELSE IF f[1] = 0 THEN 1 + LeadingZeros(Tail(f))
  ELSE 0

SigDigits(x) ==
  IF x.int > 0 THEN NumDigits(x.int) + Len(x.frac)
  ELSE Len(x.frac) - LeadingZeros(x.frac)

\* x + one unit in the last place of its fraction, carrying.
RECURSIVE IncLast(_)
IncLast(x) ==
  IF x.frac = <<>> THEN Dec(x.int + 1, <<>>)
  ELSE LET n == Len(x.frac)
           d == x.frac[n]
       IN IF d < 9 THEN Dec(x.int, [x.frac EXCEPT ![n] = d + 1])
          ELSE IncLast(Dec(x.int, SubSeq(x.frac, 1, n - 1)))

\* Rounding of a result to PRECISION significant digits, ROUND_HALF_UP.
RoundSig(x) ==
  LET sig == SigDigits(x)
  IN IF sig <= PRECISION THEN Dec(x.int, StripZeros(x.frac))
     ELSE LET keep == Len(x.frac) - (sig - PRECISION)
              cut == Dec(x.int, SubSeq(x.frac, 1, keep))
              up == IF x.frac[keep + 1] >= 5 THEN IncLast(cut) ELSE cut
          IN Dec(up.int, StripZeros(up.frac))

\* toDecimal of a stored amount.
toDecimal(n) == Dec(n, <<>>)

\* Digits of r / b after the point, long division, until the remainder is 0 or
\* one digit more than PRECISION significant digits has been produced.
RECURSIVE DivDigits(_, _, _)
DivDigits(r, b, sig) ==
  IF r = 0 \/ sig > PRECISION THEN <<>>
  ELSE LET d == (r * 10) \div b
           s == IF sig > 0 \/ d > 0 THEN sig + 1 ELSE 0
       IN <<d>> \o DivDigits((r * 10) % b, b, s)

\* decDiv(a, b) for stored amounts a, b with b > 0.
decDiv(a, b) ==
  RoundSig(Dec(a \div b, DivDigits(a % b, b, NumDigits(a \div b))))

\* The digits of f times n, with the carry into the integer part.
RECURSIVE MulDigits(_, _)
MulDigits(f, n) ==
  IF f = <<>> THEN [carry |-> 0, digits |-> <<>>]
  ELSE LET rest == MulDigits(Tail(f), n)
           v == f[1] * n + rest.carry
       IN [carry |-> v \div 10, digits |-> <<v % 10>> \o rest.digits]

\* decMul(x, n) for a Decimal x and a stored amount n.
decMul(x, n) ==
  LET m == MulDigits(x.frac, n)
  IN RoundSig(Dec(x.int * n + m.carry, m.digits))

\* decAdd(n, x) for a stored amount n and a Decimal x.
decAdd(n, x) == RoundSig(Dec(x.int + n, x.frac))

\* decEq(x, 0)
decEqZero(n) == n = 0

\* What a DECIMAL(20,8) column keeps of a Decimal: PostgreSQL rounds a numeric
\* to the column's scale, half away from zero.
StoreDecimal(x) ==
  x.int + (IF x.frac # <<>> /\ x.frac[1] >= 5 THEN 1 ELSE 0)

\* ------------------------------------------------------------ the database
VARIABLES
  balance,      \* User.virtualBalance of every user (committed)
  rounds,       \* the Round rows, by id (committed)
  predictions,  \* the Prediction rows (committed), in the order of their
                \* creation under each <<roundId, userId>>
  submits,      \* the submitPrediction calls: arguments, position, result
  resolves,     \* the resolveRound calls: arguments, position, result
  starts,       \* the round creations in progress: the admin's startRound
                \* requests and the scheduler's create jobs
  now,          \* the clock, in units of 5 seconds
  oracle,       \* the PriceOracle instance: price, lastUpdatedAt, _running,
                \* pollingInterval
  timers,       \* the runtime's interval timers and cron tasks, in the order
                \* of their creation: owner, job, whether still active
  sched,        \* the two scheduler services: their enable flags, the round
                \* scheduler's cronTasks
  jobs,         \* the scheduler's ticks and the lockRound calls: position, outcome
  balance0,     \* history: every user's balance before any call
  credited      \* history: how often resolution credited a stake's owner

vars ==
  <<balance, rounds, predictions, submits, resolves, starts, now, oracle, timers,
    sched, jobs, balance0, credited>>

Users == DOMAIN balance
SubmitCalls == DOMAIN submits
ResolveCalls == DOMAIN resolves

\* A nullable column is a sequence of length at most 1.
NULL == <<>>
Some(v) == <<v>>

NoRound == [mode |-> "NONE", status |-> "NONE"]

\* A Round row as it is created: no end price, empty pools.
NewRound(mode, status, startPrice, ranges) ==
  [mode |-> mode, status |-> status, startPrice |-> startPrice, endTime |-> 0,
   endPrice |-> NULL, resolvedAt |-> NULL,
   poolUp |-> 0, poolDown |-> 0, priceRanges |-> ranges]

\* A Prediction row as prediction.create writes it: won and payout are NULL.
NewPrediction(amount, side, priceRange) ==
  [amount |-> amount, side |-> side, priceRange |-> priceRange,
   won |-> NULL, payout |-> NULL]

\* ---- row locks of the open submitPrediction transactions.  A transaction
\* keeps the lock of every row it wrote until it commits or rolls back, and
\* its writes are invisible to every other reader until then.
HoldsUser(c) ==
  submits[c].pc \in {"createPrediction", "updatePools", "placeBet", "commit"}
HoldsPrediction(c) == submits[c].pc \in {"updatePools", "placeBet", "commit"}
HoldsRound(c) == submits[c].pc \in {"placeBet", "commit"}

UserLocked(u) == \E c \in SubmitCalls : submits[c].userId = u /\ HoldsUser(c)
RoundLocked(r) == \E c \in SubmitCalls : submits[c].roundId = r /\ HoldsRound(c)

\* -------------------------------------------------- PredictionService
ErrRoundNotFound == "Round not found"
ErrRoundNotActive == "Round is not active"
ErrDuplicate == "User has already placed a prediction for this round"
ErrInsufficient == "Insufficient balance"
ErrUniqueConstraint == "P2002 Unique constraint failed"
ErrSideRequired == "Side (UP/DOWN) is required for UP_DOWN mode"
ErrRangeRequired == "Price range is required for LEGENDS mode"
ErrInvalidRange == "Invalid price range"
ErrInvalidMode == "Invalid game mode"
ErrSoroban == "Soroban Network Error"

\* A call of submitPrediction(userId, roundId, amount, side?, priceRange?)
\* before its first statement.
SubmitCall(userId, roundId, amount, side, priceRange) ==
  [userId |-> userId, roundId |-> roundId, amount |-> amount, side |-> side,
   priceRange |-> priceRange, pc |-> "findRound", round |-> NoRound,
   result |-> "pending"]

\* (mutant) the decrement is issued outside the transaction: a throw leaves it.
SubmitThrowKeepsDebit(c, err) ==
  /\ submits' = [submits EXCEPT ![c].pc = "done", ![c].result = err]
  /\ balance' = [balance EXCEPT ![submits[c].userId] =
                   IF HoldsUser(c) THEN @ - submits[c].amount ELSE @]
  /\ UNCHANGED <<rounds, predictions>>

\* (mutant) a throw that leaves the Prediction row already inserted.
SubmitThrowKeepsStake(c, err) ==
  /\ submits' = [submits EXCEPT ![c].pc = "done", ![c].result = err]
  /\ predictions' =
       IF HoldsPrediction(c)
       THEN (<<submits[c].roundId, submits[c].userId>> :>
               Append(IF <<submits[c].roundId, submits[c].userId>> \in DOMAIN predictions
                      THEN predictions[<<submits[c].roundId, submits[c].userId>>]
                      ELSE <<>>,
                      [amount |-> submits[c].amount, side |-> submits[c].side,
                       priceRange |-> submits[c].priceRange,
                       won |-> <<>>, payout |-> <<>>]))
            @@ predictions
       ELSE predictions
  /\ UNCHANGED <<balance, rounds>>

\* A throw inside prisma.$transaction: the transaction rolls back (none of its
\* writes was ever applied) and the call rejects with the error.
SubmitThrow(c, err) ==
  /\ submits' = [submits EXCEPT ![c].pc = "done", ![c].result = err]
  /\ UNCHANGED <<balance, rounds, predictions>>

\* A statement of the transaction returned: its write, if any, stays pending.
SubmitGoto(c, pc) ==
  /\ submits' = [submits EXCEPT ![c].pc = pc]
  /\ UNCHANGED <<balance, rounds, predictions>>

\* 1. tx.round.findUnique, and the two checks on what it returned.
SubmitFindRound(c) ==
  /\ submits[c].pc = "findRound"
  /\ LET r == submits[c].roundId
     IN IF r \notin DOMAIN rounds THEN SubmitThrow(c, ErrRoundNotFound)
        ELSE IF rounds[r].status # "ACTIVE" THEN SubmitThrow(c, ErrRoundNotActive)
        ELSE /\ submits' = [submits EXCEPT ![c].pc = "findExisting",
                                           ![c].round = rounds[r]]
             /\ UNCHANGED <<balance, rounds, predictions>>
  /\ UNCHANGED <<resolves, balance0, starts, credited,
               now, oracle, timers, sched, jobs>>

\* The Prediction rows of a user on a round.
RowsOf(roundId, userId) ==
  IF <<roundId, userId>> \in DOMAIN predictions
  THEN predictions[<<roundId, userId>>] ELSE <<>>

\* 2. tx.prediction.findUnique on (roundId, userId): sees committed rows only.
SubmitFindExisting(c) ==
  /\ submits[c].pc = "findExisting"
  /\ IF RowsOf(submits[c].roundId, submits[c].userId) # <<>>
     THEN SubmitThrow(c, ErrDuplicate)
     ELSE SubmitGoto(c, "updateUser")
  /\ UNCHANGED <<resolves, balance0, starts, credited,
               now, oracle, timers, sched, jobs>>

\* (mutants) a decrement with no condition; a condition with gt for gte.
BalanceCoversAlways(bal, amount) == TRUE
BalanceCoversStrict(bal, amount) == bal > amount

\* The where clause of the conditional decrement: virtualBalance >= amount.
BalanceCovers(bal, amount) == bal >= amount

\* 3. tx.user.update where virtualBalance >= amount, decrement: one UPDATE
\* statement.  It waits for the row lock; no row matching is P2025.
SubmitUpdateUser(c) ==
  /\ submits[c].pc = "updateUser"
  /\ ~ UserLocked(submits[c].userId)
  /\ IF BalanceCovers(balance[submits[c].userId], submits[c].amount)
     THEN SubmitGoto(c, "createPrediction")
     ELSE SubmitThrow(c, ErrInsufficient)
  /\ UNCHANGED <<resolves, balance0, starts, credited,
               now, oracle, timers, sched, jobs>>

\* (mutant) no unique index on (roundId, userId).
NoUniqueIndex(roundId, userId) == FALSE

\* The unique index Prediction_roundId_userId_key: a committed row has the key.
UniqueViolation(roundId, userId) == RowsOf(roundId, userId) # <<>>

\* 4. tx.prediction.create: the unique index on (roundId, userId) rejects a
\* second row, and waits for an open transaction that inserted the same key.
SubmitCreatePrediction(c) ==
  /\ submits[c].pc = "createPrediction"
  /\ ~ \E d \in SubmitCalls \ {c} :
         /\ HoldsPrediction(d)
         /\ submits[d].roundId = submits[c].roundId
         /\ submits[d].userId = submits[c].userId
  /\ IF UniqueViolation(submits[c].roundId, submits[c].userId)
     THEN SubmitThrow(c, ErrUniqueConstraint)
     ELSE SubmitGoto(c, "updatePools")
  /\ UNCHANGED <<resolves, balance0, starts, credited,
               now, oracle, timers, sched, jobs>>

\* ranges.find(r => r.min === priceRange.min && r.max === priceRange.max)
ValidRange(ranges, priceRange) ==
  \E i \in 1..Len(ranges) :
     ranges[i].min = priceRange.min /\ ranges[i].max = priceRange.max

\* ranges.map(...): the pool of the chosen range plus the amount.
UpdatedRanges(ranges, priceRange, amount) ==
  [i \in 1..Len(ranges) |->
     IF ranges[i].min = priceRange.min /\ ranges[i].max = priceRange.max
     THEN [ranges[i] EXCEPT !.pool = @ + amount]
     ELSE ranges[i]]

\* The error of step 5, or "" when the round update is issued.
PoolsError(call) ==
  IF call.round.mode = "UP_DOWN"
  THEN IF call.side = "NONE" THEN ErrSideRequired ELSE ""
  ELSE IF call.round.mode = "LEGENDS"
  THEN IF call.priceRange = NULL THEN ErrRangeRequired
       ELSE IF ~ ValidRange(call.round.priceRanges, call.priceRange[1])
       THEN ErrInvalidRange
       ELSE ""
  ELSE ErrInvalidMode

\* 5. the mode checks and tx.round.update (which waits for the row lock).
\* UP_DOWN goes on to the Soroban call; LEGENDS returns, so commits.
SubmitUpdatePools(c) ==
  /\ submits[c].pc = "updatePools"
  /\ IF PoolsError(submits[c]) # ""
     THEN SubmitThrow(c, PoolsError(submits[c]))
     ELSE /\ ~ RoundLocked(submits[c].roundId)
          /\ SubmitGoto(c, IF submits[c].round.mode = "UP_DOWN"
                           THEN "placeBet" ELSE "commit")
  /\ UNCHANGED <<resolves, balance0, starts, credited,
               now, oracle, timers, sched, jobs>>

\* 6. sorobanService.placeBet: the external call succeeds or throws.
SubmitPlaceBet(c) ==
  /\ submits[c].pc = "placeBet"
  /\ \E ok \in BOOLEAN :
       IF ok THEN SubmitGoto(c, "commit") ELSE SubmitThrow(c, ErrSoroban)
  /\ UNCHANGED <<resolves, balance0, starts, credited,
               now, oracle, timers, sched, jobs>>

\* (mutant) a round update that writes the pools computed from the round as
\* the transaction read it, instead of incrementing.
RoundAfterStakeFromSnapshot(row, call) ==
  IF call.round.mode = "UP_DOWN"
  THEN [row EXCEPT
          !.poolUp = call.round.poolUp + (IF call.side = "UP" THEN call.amount ELSE 0),
          !.poolDown = call.round.poolDown + (IF call.side = "DOWN" THEN call.amount ELSE 0)]
  ELSE [row EXCEPT !.priceRanges =
          UpdatedRanges(call.round.priceRanges, call.priceRange[1], call.amount)]

\* The Round row after the transaction's round update is applied.
RoundAfterStake(row, call) ==
  IF call.round.mode = "UP_DOWN"
  THEN [row EXCEPT !.poolUp = IF call.side = "UP" THEN @ + call.amount ELSE @,
                   !.poolDown = IF call.side = "DOWN" THEN @ + call.amount ELSE @]
  ELSE [row EXCEPT !.priceRanges =
          UpdatedRanges(call.round.priceRanges, call.priceRange[1], call.amount)]

\* The balance after the transaction's decrement is applied.
BalanceAfterStake(bal, amount) == bal - amount

\* The callback returned: the transaction commits, and its three writes (the
\* decrement, the Prediction row, the round update) become visible together.
SubmitCommit(c) ==
  /\ submits[c].pc = "commit"
  /\ LET call == submits[c]
     IN /\ balance' = [balance EXCEPT ![call.userId] =
                         BalanceAfterStake(@, call.amount)]
        /\ predictions' =
             (<<call.roundId, call.userId>> :>
                Append(RowsOf(call.roundId, call.userId),
                       NewPrediction(call.amount, call.side, call.priceRange)))
             @@ predictions
        /\ rounds' = [rounds EXCEPT ![call.roundId] = RoundAfterStake(@, call)]
        /\ submits' = [submits EXCEPT ![c].pc = "done", ![c].result = "ok"]
  /\ UNCHANGED <<resolves, balance0, starts, credited,
               now, oracle, timers, sched, jobs>>

SubmitStep(c) ==
  \/ SubmitFindRound(c)
  \/ SubmitFindExisting(c)
  \/ SubmitUpdateUser(c)
  \/ SubmitCreatePrediction(c)
  \/ SubmitUpdatePools(c)
  \/ SubmitPlaceBet(c)
  \/ SubmitCommit(c)

\* -------------------------------------------------- ResolutionService
ErrAlreadyResolved == "Round already resolved"
ErrInvalidState == "Round must be locked or active to resolve"
ErrSorobanResolve == "Soroban resolve error"
ErrNotification == "Notification error"

\* A call of resolveRound(roundId, finalPrice) before its first statement.
ResolveCall(roundId, finalPrice) ==
  [roundId |-> roundId, finalPrice |-> finalPrice, pc |-> "findRound",
   round |-> NoRound, preds |-> <<>>, i |-> 0, result |-> "pending"]

\* include: { predictions }: the committed Prediction rows of a round, here in
\* the order of their users; n is the row's place among its user's rows.
RECURSIVE PredictionsFrom(_, _)
PredictionsFrom(r, u) ==
  IF u \notin Users THEN <<>>
  ELSE [n \in 1..Len(RowsOf(r, u)) |->
          [userId |-> u, n |-> n, amount |-> RowsOf(r, u)[n].amount,
           side |-> RowsOf(r, u)[n].side,
           priceRange |-> RowsOf(r, u)[n].priceRange]]
       \o PredictionsFrom(r, u + 1)

\* (mutant) the comparison of the two prices reversed.
WinningSideReversed(finalPrice, startPrice) ==
  IF finalPrice < startPrice THEN "UP"
  ELSE IF finalPrice > startPrice THEN "DOWN"
  ELSE "NONE"

\* winningSide of resolveUpDownRound ("NONE" is null).
WinningSide(finalPrice, startPrice) ==
  IF finalPrice > startPrice THEN "UP"
  ELSE IF finalPrice < startPrice THEN "DOWN"
  ELSE "NONE"

\* (mutant) the upper bound of a range taken as inclusive.
InRangeInclusive(price, range) == price >= range.min /\ price <= range.max

\* finalPriceDec.gte(min) && finalPriceDec.lt(max)
InRange(price, range) == price >= range.min /\ price < range.max

\* (mutant) a search that falls back on the last range.
FindRangeLast(ranges, price, i) == Len(ranges)

\* priceRanges.find(...): the index of the first range holding the price, or 0.
RECURSIVE FindRange(_, _, _)
FindRange(ranges, price, i) ==
  IF i > Len(ranges) THEN 0
  ELSE IF InRange(price, ranges[i]) THEN i
  ELSE FindRange(ranges, price, i + 1)

WinningRange(call) == FindRange(call.round.priceRanges, call.finalPrice, 1)

RECURSIVE SumPools(_, _)
SumPools(ranges, i) ==
  IF i > Len(ranges) THEN 0 ELSE ranges[i].pool + SumPools(ranges, i + 1)

\* priceUnchanged (UP_DOWN), !winningRange (LEGENDS): everyone is refunded.
Refunds(call) ==
  IF call.round.mode = "UP_DOWN"
  THEN call.finalPrice = call.round.startPrice
  ELSE WinningRange(call) = 0

WinningPool(call) ==
  IF call.round.mode = "UP_DOWN"
  THEN IF WinningSide(call.finalPrice, call.round.startPrice) = "UP"
       THEN call.round.poolUp ELSE call.round.poolDown
  ELSE call.round.priceRanges[WinningRange(call)].pool

LosingPool(call) ==
  IF call.round.mode = "UP_DOWN"
  THEN IF WinningSide(call.finalPrice, call.round.startPrice) = "UP"
       THEN call.round.poolDown ELSE call.round.poolUp
  ELSE SumPools(call.round.priceRanges, 1) - WinningPool(call)

\* (mutant) an empty winning pool handled like a tie: everyone refunded.
KindRefundsNoWinner(call) ==
  IF Refunds(call) \/ decEqZero(WinningPool(call)) THEN "refund" ELSE "payout"

\* "refund", "none" (no winners, no payouts) or "payout".
Kind(call) ==
  IF Refunds(call) THEN "refund"
  ELSE IF decEqZero(WinningPool(call)) THEN "none"
  ELSE "payout"

IsWinner(call, p) ==
  IF call.round.mode = "UP_DOWN"
  THEN p.side = WinningSide(call.finalPrice, call.round.startPrice)
  ELSE LET w == call.round.priceRanges[WinningRange(call)]
       IN p.priceRange[1].min = w.min /\ p.priceRange[1].max = w.max

\* payout = decAdd(predAmount, decMul(decDiv(predAmount, winningPool), losingPool))
WinnerPayout(amount, winningPool, losingPool) ==
  decAdd(amount, decMul(decDiv(amount, winningPool), losingPool))

\* (mutant) a refund that pays nothing back.
RefundNothing(amount) == toDecimal(0)

\* refundAmount = toDecimal(prediction.amount)
RefundAmount(amount) == toDecimal(amount)

\* What the loop writes for prediction p: won and payout, and the increment of
\* the owner's balance (none for a loser).
Settlement(call, p) ==
  IF Kind(call) = "refund"
  THEN [won |-> NULL, payout |-> RefundAmount(p.amount), credit |-> TRUE]
  ELSE IF IsWinner(call, p)
  THEN [won |-> Some(TRUE),
        payout |-> WinnerPayout(p.amount, WinningPool(call), LosingPool(call)),
        credit |-> TRUE]
  ELSE [won |-> Some(FALSE), payout |-> toDecimal(0), credit |-> FALSE]

\* virtualBalance: { increment: x } on a DECIMAL(20,8) column.
BalanceAfterCredit(bal, x) == StoreDecimal(Dec(bal + x.int, x.frac))

ResolveThrow(c, err) ==
  resolves' = [resolves EXCEPT ![c].pc = "done", ![c].result = err]

\* Where the mode-specific resolution starts once its inputs are known.
EnterLoop(call) ==
  IF Kind(call) = "none" \/ call.preds = <<>>
  THEN [call EXCEPT !.pc = "updateRound"]
  ELSE [call EXCEPT !.pc = "updatePrediction", !.i = 1]

\* (mutant) resolveRound without its checks of the status.
ResolveGuardAnyStatus(r) ==
  IF r \notin DOMAIN rounds THEN ErrRoundNotFound ELSE ""

\* (mutant) resolveRound without its check of RESOLVED.
ResolveGuardNoResolvedCheck(r) ==
  IF r \notin DOMAIN rounds THEN ErrRoundNotFound
  ELSE IF rounds[r].status \notin {"LOCKED", "ACTIVE", "RESOLVED"}
  THEN ErrInvalidState
  ELSE ""

\* The three checks on the round read: the error thrown, or "".
ResolveGuard(r) ==
  IF r \notin DOMAIN rounds THEN ErrRoundNotFound
  ELSE IF rounds[r].status = "RESOLVED" THEN ErrAlreadyResolved
  ELSE IF rounds[r].status # "LOCKED" /\ rounds[r].status # "ACTIVE"
  THEN ErrInvalidState
  ELSE ""

\* prisma.round.findUnique with its predictions, and the three state checks.
ResolveFindRound(c) ==
  /\ resolves[c].pc = "findRound"
  /\ LET r == resolves[c].roundId
     IN IF ResolveGuard(r) # "" THEN ResolveThrow(c, ResolveGuard(r))
        ELSE LET call == [resolves[c] EXCEPT !.round = rounds[r],
                                             !.preds = PredictionsFrom(r, 1)]
             IN resolves' = [resolves EXCEPT ![c] =
                  IF call.round.mode = "UP_DOWN"
                  THEN [call EXCEPT !.pc = "sorobanResolve"]
                  ELSE EnterLoop(call)]
  /\ UNCHANGED <<balance, rounds, predictions, submits, balance0, starts, credited,
               now, oracle, timers, sched, jobs>>

\* sorobanService.resolveRound (UP_DOWN only): succeeds or throws.
ResolveSoroban(c) ==
  /\ resolves[c].pc = "sorobanResolve"
  /\ \E ok \in BOOLEAN :
       IF ok THEN resolves' = [resolves EXCEPT ![c] = EnterLoop(@)]
       ELSE ResolveThrow(c, ErrSorobanResolve)
  /\ UNCHANGED <<balance, rounds, predictions, submits, balance0, starts, credited,
               now, oracle, timers, sched, jobs>>

\* prisma.prediction.update of the loop's current prediction.
ResolveUpdatePrediction(c) ==
  /\ resolves[c].pc = "updatePrediction"
  /\ LET call == resolves[c]
         p == call.preds[call.i]
         s == Settlement(call, p)
     IN predictions' = [predictions EXCEPT ![<<call.roundId, p.userId>>][p.n] =
          [@ EXCEPT !.won = s.won, !.payout = Some(StoreDecimal(s.payout))]]
  /\ resolves' = [resolves EXCEPT ![c].pc = "updateUser"]
  /\ UNCHANGED <<balance, rounds, submits, balance0, starts,
               now, oracle, timers, sched, jobs>>
  /\ UNCHANGED credited

\* prisma.user.update of its owner (waits for the row lock), then, for the
\* winners and losers of an UP_DOWN round, createNotification, which may
\* throw; then the next prediction.
ResolveUpdateUser(c) ==
  /\ resolves[c].pc = "updateUser"
  /\ LET call == resolves[c]
         p == call.preds[call.i]
         s == Settlement(call, p)
         notifies == call.round.mode = "UP_DOWN" /\ Kind(call) = "payout"
     IN /\ ~ UserLocked(p.userId)
        /\ balance' = [balance EXCEPT ![p.userId] =
             IF s.credit THEN BalanceAfterCredit(@, s.payout) ELSE @]
        /\ credited' = [credited EXCEPT ![<<call.roundId, p.userId>>] =
             IF s.credit THEN @ + 1 ELSE @]
        /\ \E ok \in (IF notifies THEN BOOLEAN ELSE {TRUE}) :
             IF ~ ok THEN ResolveThrow(c, ErrNotification)
             ELSE IF call.i < Len(call.preds)
             THEN resolves' = [resolves EXCEPT ![c].pc = "updatePrediction",
                                              ![c].i = call.i + 1]
             ELSE resolves' = [resolves EXCEPT ![c].pc = "updateRound"]
  /\ UNCHANGED <<rounds, predictions, submits, balance0, starts,
               now, oracle, timers, sched, jobs>>

\* prisma.round.update: status, endPrice, resolvedAt (waits for the row lock).
\* The tip generation that follows cannot fail the call.
ResolveUpdateRound(c) ==
  /\ resolves[c].pc = "updateRound"
  /\ ~ RoundLocked(resolves[c].roundId)
  /\ rounds' = [rounds EXCEPT ![resolves[c].roundId] =
       [@ EXCEPT !.status = "RESOLVED",
                 !.endPrice = Some(StoreDecimal(toDecimal(resolves[c].finalPrice))),
                 !.resolvedAt = Some(now)]]
  /\ resolves' = [resolves EXCEPT ![c].pc = "done", ![c].result = "ok"]
  /\ UNCHANGED <<balance, predictions, submits, balance0, starts, credited,
               now, oracle, timers, sched, jobs>>

ResolveStep(c) ==
  \/ ResolveFindRound(c)
  \/ ResolveSoroban(c)
  \/ ResolveUpdatePrediction(c)
  \/ ResolveUpdateUser(c)
  \/ ResolveUpdateRound(c)

\* ------------------------------------------------------ round service
\* lockRound(id): ACTIVE becomes LOCKED, by one conditional update.
LockRound(r) ==
  /\ r \in DOMAIN rounds
  /\ rounds[r].status = "ACTIVE"
  /\ ~ RoundLocked(r)
  /\ rounds' = [rounds EXCEPT ![r].status = "LOCKED"]
  /\ UNCHANGED <<balance, predictions, submits, resolves, balance0, starts, credited,
               now, oracle, timers, sched, jobs>>

\* ------------------------------------------------------ declared values
Modes == {"UP_DOWN", "LEGENDS"}

\* The ranges a LEGENDS round declares: [MidPrice-1, MidPrice), [MidPrice, MidPrice+1).
DeclaredRanges ==
  << [min |-> MidPrice - 1, max |-> MidPrice, pool |-> 0],
     [min |-> MidPrice, max |-> MidPrice + 1, pool |-> 0] >>

RangeArg(i) == [min |-> DeclaredRanges[i].min, max |-> DeclaredRanges[i].max]
UndeclaredRange == [min |-> MidPrice - 1, max |-> MidPrice + 1]

\* A round as the round service creates it.
ActiveRound(mode) ==
  NewRound(mode, "ACTIVE", MidPrice,
           IF mode = "LEGENDS" THEN DeclaredRanges ELSE NULL)

NoCalls == [c \in {} |-> 0]

\* ------------------------------------------------------------ the runtime
\* A timer as setInterval or cron.schedule creates it.
Timer(owner, job) == [owner |-> owner, job |-> job, active |-> TRUE, fired |-> 0]

\* The scheduler services before any start(): the values of
\* ROUND_SCHEDULER_ENABLED and AUTO_RESOLVE_ENABLED, no cron task kept.
\* stopped is history: the services whose stop() was called since their last
\* start().
Sched(roundEnabled, resolveEnabled) ==
  [roundEnabled |-> roundEnabled, resolveEnabled |-> resolveEnabled,
   cronTasks |-> <<>>, stopped |-> {}]

NoSched == Sched("unset", "unset")

\* --------------------------------------------------------- PriceOracle
\* 60 s, in units of 5 s.
STALENESS_THRESHOLD == 12

\* The oracle before its first successful fetch.
NoOracle ==
  [price |-> NULL, lastUpdatedAt |-> NULL, running |-> FALSE,
   pollingInterval |-> NULL]

\* The oracle after a successful fetch: fetchPrice stores any truthy usd value
\* together with the time of the fetch.
FetchedOracle(price, at) ==
  [NoOracle EXCEPT !.price = Some(price), !.lastUpdatedAt = Some(at)]

getPrice == oracle.price

\* (mutant) isStale with >= in place of >.
isStaleInclusive ==
  IF oracle.lastUpdatedAt = NULL THEN TRUE
  ELSE now - oracle.lastUpdatedAt[1] >= STALENESS_THRESHOLD

isStale ==
  IF oracle.lastUpdatedAt = NULL THEN TRUE
  ELSE now - oracle.lastUpdatedAt[1] > STALENESS_THRESHOLD

\* !price || price <= 0, the test both jobs make on getPrice().
InvalidPrice(price) == price = NULL \/ price[1] <= 0

\* The states of the oracle at time 0: never fetched, or fetched (a positive
\* or a negative value) a little less than, exactly, or more than
\* STALENESS_THRESHOLD ago.
OracleStates ==
  {NoOracle} \cup
  { FetchedOracle(p, 0 - t) :
      p \in {0 - 1, MidPrice},
      t \in {STALENESS_THRESHOLD - 2, STALENESS_THRESHOLD, STALENESS_THRESHOLD + 1} }

\* ------------------------------------------------------ round creation
ErrActiveRoundExists == "ACTIVE_ROUND_EXISTS"
SkipInvalidPrice == "Skipping round creation: invalid price from oracle"
SkipActiveExists == "Skipping round creation: active round already exists"
ErrQuery == "DB connection lost"

\* startRound(mode, startPrice, 1): one minute, in units of 5 s.
RoundDuration == 12

\* (mutant) a catch that throws the error again.
JobCatchRethrows(error) == "threw"

\* catch (error) of a scheduler job: the error is logged, the job returns.
JobCatch(error) == "returned"

\* A round creation before its first statement: POST /api/rounds/start calls
\* startRound at once, the scheduler's createRound first looks at the oracle's
\* price and for an ACTIVE round of its mode.
StartCall(kind, mode, startPrice) ==
  [kind |-> kind, mode |-> mode, startPrice |-> startPrice,
   pc |-> IF kind = "admin" THEN "startRound" ELSE "findFirst",
   result |-> "pending", outcome |-> "pending"]

StartCalls == DOMAIN starts

\* (mutant) a startRound that never sees an ACTIVE round.
ActiveExistsNever(mode) == FALSE

\* (mutant) a startRound that any ACTIVE round blocks, whatever its mode.
ActiveExistsAnyMode(mode) ==
  \E r \in DOMAIN rounds : rounds[r].status = "ACTIVE"

\* startRound's guard: an ACTIVE round of the mode exists.
ActiveExists(mode) ==
  \E r \in DOMAIN rounds : rounds[r].mode = mode /\ rounds[r].status = "ACTIVE"

\* prisma.round.findFirst({ where: { mode, status: "ACTIVE" } }) found a round.
ExistingActiveRound(mode) ==
  \E r \in DOMAIN rounds : rounds[r].mode = mode /\ rounds[r].status = "ACTIVE"

\* createRound up to its call of startRound: it reads the oracle's price and
\* skips on an invalid one, then skips when prisma.round.findFirst finds an
\* ACTIVE round of the mode; a failing query is caught and logged.
CreateRoundCheck(c) ==
  /\ starts[c].pc = "findFirst"
  /\ \E ok \in (IF InvalidPrice(getPrice) THEN {TRUE} ELSE BOOLEAN) :
       starts' = [starts EXCEPT ![c] =
         IF InvalidPrice(getPrice)
         THEN [@ EXCEPT !.pc = "done", !.result = SkipInvalidPrice,
                        !.outcome = "returned"]
         ELSE IF ~ ok
         THEN [@ EXCEPT !.pc = "done", !.result = ErrQuery,
                        !.outcome = JobCatch(ErrQuery)]
         ELSE IF ExistingActiveRound(starts[c].mode)
         THEN [@ EXCEPT !.pc = "done", !.result = SkipActiveExists,
                        !.outcome = "returned"]
         ELSE [@ EXCEPT !.pc = "startRound", !.startPrice = getPrice[1]]]
  /\ UNCHANGED <<balance, rounds, predictions, submits, resolves, balance0,
               now, oracle, timers, sched, jobs, credited>>

\* The round startRound creates: ACTIVE, zeroed pools, ending after the
\* duration.
StartedRound(mode, startPrice) ==
  [NewRound(mode, "ACTIVE", startPrice,
            IF mode = "LEGENDS" THEN DeclaredRanges ELSE NULL)
     EXCEPT !.endTime = now + RoundDuration]

\* startRound(mode, startPrice, duration): one atomic check and insert.  It
\* fails with ACTIVE_ROUND_EXISTS when an ACTIVE round of the mode exists; the
\* scheduler catches and logs that error, the route answers 409.
StartRound(c) ==
  /\ starts[c].pc = "startRound"
  /\ IF ActiveExists(starts[c].mode)
     THEN /\ starts' = [starts EXCEPT
                          ![c].pc = "done",
                          ![c].result = ErrActiveRoundExists,
                          ![c].outcome = IF starts[c].kind = "scheduler"
                                         THEN JobCatch(ErrActiveRoundExists)
                                         ELSE "threw"]
          /\ UNCHANGED rounds
     ELSE /\ starts' = [starts EXCEPT ![c].pc = "done", ![c].result = "ok",
                                      ![c].outcome = "returned"]
          /\ rounds' = Append(rounds,
                              StartedRound(starts[c].mode, starts[c].startPrice))
  /\ UNCHANGED <<balance, predictions, submits, resolves, balance0,
               now, oracle, timers, sched, jobs, credited>>

StartStep(c) ==
  \/ CreateRoundCheck(c)
  \/ StartRound(c)

\* ------------------------------------------------------ scheduler jobs
\* The resolve job's stabilization buffer: 15000 ms, in units of 5 s.
BUFFER == 3

ErrLock == "DB connection lost while locking"
SkipResolve == "Cannot auto-resolve rounds: Invalid price from oracle"

\* A tick of the resolve job ("resolve") or of the lock job ("close"), or a
\* call lockRound(roundId) ("lock"), before its first statement.  at and
\* stale are history: the time of the tick and what isStale() would have said.
Job(kind, roundId) ==
  [kind |-> kind, roundId |-> roundId, pc |-> "start", at |-> 0,
   stale |-> FALSE, price |-> NULL, expired |-> <<>>, i |-> 0, call |-> 0,
   attempted |-> <<>>, failed |-> <<>>,
   result |-> "pending", outcome |-> "pending"]

Jobs == DOMAIN jobs

\* The job returns.
JobReturn(job, result) ==
  [job EXCEPT !.pc = "done", !.result = result, !.outcome = "returned"]

\* A statement of the job throws: its outer catch takes the error.
JobThrow(job, error) ==
  [job EXCEPT !.pc = "done", !.result = error, !.outcome = JobCatch(error)]

\* (mutant) the resolve job's filter with endTime: { lt: bufferTime }.
ExpiredStrict(r, bufferTime) ==
  /\ rounds[r].status \in {"ACTIVE", "LOCKED"}
  /\ rounds[r].endTime < bufferTime

\* (mutant) the resolve job's filter without the status.
ExpiredAnyStatus(r, bufferTime) == rounds[r].endTime <= bufferTime

\* where: { status: { in: ["ACTIVE", "LOCKED"] }, endTime: { lte: bufferTime } }
Expired(r, bufferTime) ==
  /\ rounds[r].status \in {"ACTIVE", "LOCKED"}
  /\ rounds[r].endTime <= bufferTime

\* prisma.round.findMany with that filter: the ids found.
ExpiredRounds(bufferTime) ==
  SelectSeq([r \in DOMAIN rounds |-> r], LAMBDA r : Expired(r, bufferTime))

\* The job calls resolveRound for the k-th round found and awaits it.
Invoke(job, k) ==
  [job EXCEPT !.pc = "await", !.i = k, !.call = Len(resolves) + 1,
              !.attempted = Append(@, job.expired[k])]

\* (mutant) a loop whose first failure ends the tick.
NextRoundStopsOnFailure(i, failed, n) == IF failed THEN n + 1 ELSE i + 1

\* for (const round of expiredRounds) with try/catch inside: the round the
\* loop goes to after round i, whether resolveRound threw or not.
NextRound(i, failed, n) == i + 1

\* autoResolveRounds up to its first resolveRound call: the query, the
\* oracle's price, the first call.
AutoResolveRounds(j) ==
  /\ jobs[j].kind = "resolve" /\ jobs[j].pc = "start"
  /\ \E ok \in BOOLEAN :
       LET expired == ExpiredRounds(now - BUFFER)
           job == [jobs[j] EXCEPT !.at = now, !.stale = isStale]
       IN IF ~ ok
          THEN /\ jobs' = [jobs EXCEPT ![j] = JobThrow(job, ErrQuery)]
               /\ UNCHANGED resolves
          ELSE IF expired = <<>>
          THEN /\ jobs' = [jobs EXCEPT ![j] = JobReturn(job, "none")]
               /\ UNCHANGED resolves
          ELSE IF InvalidPrice(getPrice)
          THEN /\ jobs' = [jobs EXCEPT ![j] =
                    JobReturn([job EXCEPT !.expired = expired, !.price = getPrice],
                              SkipResolve)]
               /\ UNCHANGED resolves
          ELSE /\ jobs' = [jobs EXCEPT ![j] =
                    Invoke([job EXCEPT !.expired = expired, !.price = getPrice], 1)]
               /\ resolves' = Append(resolves, ResolveCall(expired[1], getPrice[1]))
  /\ UNCHANGED <<balance, rounds, predictions, submits, starts, now, oracle, timers, sched,
               balance0, credited>>

\* The awaited resolveRound returned or threw; a throw is caught and logged
\* inside the loop.  Then the next round found, or the end of the tick.
AutoResolveNext(j) ==
  /\ jobs[j].kind = "resolve" /\ jobs[j].pc = "await"
  /\ resolves[jobs[j].call].pc = "done"
  /\ LET failed == resolves[jobs[j].call].result # "ok"
         job == [jobs[j] EXCEPT !.failed =
                   IF failed THEN Append(@, jobs[j].expired[jobs[j].i]) ELSE @]
         k == NextRound(job.i, failed, Len(job.expired))
     IN IF k <= Len(job.expired)
        THEN /\ jobs' = [jobs EXCEPT ![j] = Invoke(job, k)]
             /\ resolves' = Append(resolves,
                                   ResolveCall(job.expired[k], job.price[1]))
        ELSE /\ jobs' = [jobs EXCEPT ![j] = JobReturn(job, "ok")]
             /\ UNCHANGED resolves
  /\ UNCHANGED <<balance, rounds, predictions, submits, starts, now, oracle, timers, sched,
               balance0, credited>>

\* (mutant) a count of the ACTIVE rounds, whatever their endTime.
ExpiredCountAnyTime ==
  Cardinality({r \in DOMAIN rounds : rounds[r].status = "ACTIVE"})

\* prisma.round.count({ where: { status: "ACTIVE", endTime: { lte: now } } })
ExpiredCount ==
  Cardinality({r \in DOMAIN rounds :
                 rounds[r].status = "ACTIVE" /\ rounds[r].endTime <= now})

\* closeEligibleRounds up to its call of autoLockExpiredRounds.
CloseEligibleRounds(j) ==
  /\ jobs[j].kind = "close" /\ jobs[j].pc = "start"
  /\ \E ok \in BOOLEAN :
       LET job == [jobs[j] EXCEPT !.at = now, !.stale = isStale]
       IN jobs' = [jobs EXCEPT ![j] =
            IF ~ ok THEN JobThrow(job, ErrQuery)
            ELSE IF ExpiredCount = 0 THEN JobReturn(job, "none")
            ELSE [job EXCEPT !.pc = "autoLock"]]
  /\ UNCHANGED <<balance, rounds, predictions, submits, resolves, starts, now,
               oracle, timers, sched, balance0, credited>>

\* (mutant) a lockRound that locks whatever the status.
LockedStatusAlways(status) == "LOCKED"

\* lockRound's conditional update: only ACTIVE becomes LOCKED.
LockedStatus(status) == IF status = "ACTIVE" THEN "LOCKED" ELSE status

\* (mutant) a lockRound that reports updated whatever it did.
LockOutcomeAlwaysUpdated(status) == "updated"

\* What lockRound reports.
LockOutcome(status) ==
  IF status = "ACTIVE" THEN "updated"
  ELSE IF status = "LOCKED" THEN "already_locked"
  ELSE "already_resolved"

\* (mutant) an autoLockExpiredRounds that takes every ACTIVE round.
LockEligibleAnyTime(r) == rounds[r].status = "ACTIVE"

\* The rounds autoLockExpiredRounds finds: ACTIVE, endTime <= now.
LockEligible(r) == rounds[r].status = "ACTIVE" /\ rounds[r].endTime <= now

\* autoLockExpiredRounds(): lockRound for every round found, or an error,
\* which closeEligibleRounds catches and logs.
AutoLockExpiredRounds(j) ==
  /\ jobs[j].kind = "close" /\ jobs[j].pc = "autoLock"
  /\ \E ok \in BOOLEAN :
       IF ok
       THEN /\ \A r \in DOMAIN rounds : LockEligible(r) => ~ RoundLocked(r)
            /\ rounds' = [r \in DOMAIN rounds |->
                            IF LockEligible(r)
                            THEN [rounds[r] EXCEPT !.status = LockedStatus(@)]
                            ELSE rounds[r]]
            /\ jobs' = [jobs EXCEPT ![j] = JobReturn(@, "ok")]
       ELSE /\ UNCHANGED rounds
            /\ jobs' = [jobs EXCEPT ![j] = JobThrow(@, ErrLock)]
  /\ UNCHANGED <<balance, predictions, submits, resolves, starts, now, oracle, timers, sched,
               balance0, credited>>

\* lockRound(roundId) on an ACTIVE, LOCKED or RESOLVED round.
LockRoundCall(j) ==
  /\ jobs[j].kind = "lock" /\ jobs[j].pc = "start"
  /\ jobs[j].roundId \in DOMAIN rounds
  /\ rounds[jobs[j].roundId].status \in {"ACTIVE", "LOCKED", "RESOLVED"}
  /\ ~ RoundLocked(jobs[j].roundId)
  /\ rounds' = [rounds EXCEPT ![jobs[j].roundId].status = LockedStatus(@)]
  /\ jobs' = [jobs EXCEPT ![j] =
       JobReturn([@ EXCEPT !.at = now],
                 LockOutcome(rounds[jobs[j].roundId].status))]
  /\ UNCHANGED <<balance, predictions, submits, resolves, starts, now, oracle, timers, sched,
               balance0, credited>>

JobStep(j) ==
  \/ AutoResolveRounds(j)
  \/ AutoResolveNext(j)
  \/ CloseEligibleRounds(j)
  \/ AutoLockExpiredRounds(j)
  \/ LockRoundCall(j)

\* Five seconds pass.
Tick ==
  /\ now < MaxTime
  /\ now' = now + 1
  /\ UNCHANGED <<balance, rounds, predictions, submits, resolves, starts,
               oracle, timers, sched, jobs, balance0, credited>>

\* ----------------------------------------------------- oracle polling
MAX_RETRIES == 3

\* A call of fetchPrice(attempt = 1) before its request.  waits is history:
\* the backoffs, in ms, the call has gone through; response its last response.
FetchCall ==
  [kind |-> "fetch", pc |-> "get", attempt |-> 1, waits |-> <<>>,
   response |-> <<"pending">>, outcome |-> "pending"]

\* What axios.get can give: an error or timeout, or a response whose
\* stellar.usd is missing, 0, negative or positive.
Responses ==
  {<<"throw">>, <<"missing">>} \cup { <<"usd", p>> : p \in {0, 0 - 1, MidPrice} }

\* response.data?.stellar?.usd is truthy.
CarriesPrice(response) == response[1] = "usd" /\ response[2] # 0

\* (mutant) no cap on the backoff, and one doubling more.
BackoffDoubled(attempt) == 1000 * 2 ^ attempt

\* Math.min(1000 * 2 ** (attempt - 1), 8000)
Backoff(attempt) ==
  IF 1000 * 2 ^ (attempt - 1) < 8000 THEN 1000 * 2 ^ (attempt - 1) ELSE 8000

\* (mutant) attempt <= MAX_RETRIES.
RetryAllowedInclusive(attempt) == attempt <= MAX_RETRIES

\* attempt < this.MAX_RETRIES
RetryAllowed(attempt) == attempt < MAX_RETRIES

\* (mutant) startPolling without its guard.
AlreadyRunningNever == FALSE

\* if (this._running)
AlreadyRunning == oracle.running

\* (mutant) a fetch that stores whatever usd it was given.
StoresPriceAlways(response) == response[1] = "usd"

\* if (response.data?.stellar?.usd): the response sets price and lastUpdatedAt.
StoresPrice(response) == CarriesPrice(response)

\* startPolling(): ignored while running; otherwise the first fetchPrice() and
\* a new interval timer.
StartPolling ==
  /\ Len(timers) < MaxTimers /\ Len(jobs) < MaxFetches
  /\ IF AlreadyRunning
     THEN UNCHANGED <<oracle, timers, jobs>>
     ELSE /\ oracle' = [oracle EXCEPT !.running = TRUE,
                                      !.pollingInterval = Some(Len(timers) + 1)]
          /\ timers' = Append(timers, Timer("oracle", "fetchPrice"))
          /\ jobs' = Append(jobs, FetchCall)
  /\ UNCHANGED <<balance, rounds, predictions, submits, resolves, starts, now,
               sched, balance0, credited>>

\* stopPolling(): nothing when not running; otherwise clearInterval of the
\* timer held and _running = false.
StopPolling ==
  /\ IF ~ oracle.running
     THEN UNCHANGED <<oracle, timers>>
     ELSE /\ timers' = IF oracle.pollingInterval # NULL
                       THEN [timers EXCEPT ![oracle.pollingInterval[1]].active = FALSE]
                       ELSE timers
          /\ oracle' = [oracle EXCEPT !.pollingInterval = NULL, !.running = FALSE]
  /\ UNCHANGED <<balance, rounds, predictions, submits, resolves, starts, now,
               sched, jobs, balance0, credited>>

\* An active interval timer of the oracle fires: fetchPrice().
PollingTimerFires(t) ==
  /\ timers[t].active /\ timers[t].owner = "oracle"
  /\ Len(jobs) < MaxFetches
  /\ timers' = [timers EXCEPT ![t].fired = 1]
  /\ jobs' = Append(jobs, FetchCall)
  /\ UNCHANGED <<balance, rounds, predictions, submits, resolves, starts, now,
               oracle, sched, balance0, credited>>

\* fetchPrice(attempt): the request and what follows it.  A response with a
\* price sets price and lastUpdatedAt; one without is logged; an error is
\* retried after the backoff while attempts are left, and logged otherwise.
FetchPrice(j) ==
  /\ jobs[j].kind = "fetch" /\ jobs[j].pc = "get"
  /\ \E response \in Responses :
       IF response[1] = "throw"
       THEN /\ jobs' = [jobs EXCEPT ![j] =
                 IF RetryAllowed(jobs[j].attempt)
                 THEN [@ EXCEPT !.attempt = @ + 1, !.response = response,
                                !.waits = Append(@, Backoff(jobs[j].attempt))]
                 ELSE [@ EXCEPT !.pc = "done", !.response = response,
                                !.outcome = "returned"]]
            /\ UNCHANGED oracle
       ELSE /\ jobs' = [jobs EXCEPT ![j] =
                 [@ EXCEPT !.pc = "done", !.response = response,
                           !.outcome = "returned"]]
            /\ oracle' = IF StoresPrice(response)
                         THEN [oracle EXCEPT !.price = Some(response[2]),
                                             !.lastUpdatedAt = Some(now)]
                         ELSE oracle
  /\ UNCHANGED <<balance, rounds, predictions, submits, resolves, starts, now,
               timers, sched, balance0, credited>>

\* ------------------------------------------------- scheduler lifecycle
\* RoundSchedulerService.start(): nothing unless ROUND_SCHEDULER_ENABLED is
\* "true"; otherwise the create and the close job, both kept in cronTasks.
RoundSchedulerStart ==
  /\ Len(timers) + 2 <= 2 * MaxTimers
  /\ IF sched.roundEnabled # "true"
     THEN UNCHANGED <<timers, sched>>
     ELSE /\ timers' = timers \o <<Timer("round", "createRound"),
                                   Timer("round", "closeEligibleRounds")>>
          /\ sched' = [sched EXCEPT
                         !.cronTasks = @ \o <<Len(timers) + 1, Len(timers) + 2>>,
                         !.stopped = @ \ {"round"}]
  /\ UNCHANGED <<balance, rounds, predictions, submits, resolves, starts, now,
               oracle, jobs, balance0, credited>>

\* RoundSchedulerService.stop(): task.stop() for every task kept.
RoundSchedulerStop ==
  /\ timers' = [t \in DOMAIN timers |->
                  IF \E k \in 1..Len(sched.cronTasks) : sched.cronTasks[k] = t
                  THEN [timers[t] EXCEPT !.active = FALSE]
                  ELSE timers[t]]
  /\ sched' = [sched EXCEPT !.cronTasks = <<>>, !.stopped = @ \cup {"round"}]
  /\ UNCHANGED <<balance, rounds, predictions, submits, resolves, starts, now,
               oracle, jobs, balance0, credited>>

\* SchedulerService.start(): nothing unless AUTO_RESOLVE_ENABLED is "true";
\* otherwise the auto-resolve and the cleanup job.  The tasks cron.schedule
\* returns are not kept.
SchedulerStart ==
  /\ Len(timers) + 2 <= 2 * MaxTimers
  /\ IF sched.resolveEnabled # "true"
     THEN UNCHANGED <<timers, sched>>
     ELSE /\ timers' = timers \o <<Timer("resolve", "autoResolveRounds"),
                                   Timer("resolve", "cleanupOldNotifications")>>
          /\ sched' = [sched EXCEPT !.stopped = @ \ {"resolve"}]
  /\ UNCHANGED <<balance, rounds, predictions, submits, resolves, starts, now,
               oracle, jobs, balance0, credited>>

\* The server's cleanup: priceOracle.stopPolling(), then
\* schedulerService.stop(), which SchedulerService does not define: the call
\* throws, and roundSchedulerService.stop() after it is not reached.
Cleanup ==
  /\ "resolve" \notin sched.stopped
  /\ timers' = IF oracle.running /\ oracle.pollingInterval # NULL
               THEN [timers EXCEPT ![oracle.pollingInterval[1]].active = FALSE]
               ELSE timers
  /\ oracle' = IF oracle.running
               THEN [oracle EXCEPT !.pollingInterval = NULL, !.running = FALSE]
               ELSE oracle
  /\ sched' = [sched EXCEPT !.stopped = @ \cup {"resolve"}]
  /\ UNCHANGED <<balance, rounds, predictions, submits, resolves, starts, now,
               jobs, balance0, credited>>

\* An active cron task fires: its job runs.
CronFires(t) ==
  /\ timers[t].active /\ timers[t].owner # "oracle"
  /\ timers[t].fired = 0
  /\ timers' = [timers EXCEPT ![t].fired = 1]
  /\ UNCHANGED <<balance, rounds, predictions, submits, resolves, starts, now,
               oracle, sched, jobs, balance0, credited>>

\* ------------------------------------------------------- initial states

InitDb(bals, rds) ==
  /\ balance = bals
  /\ balance0 = bals
  /\ rounds = rds
  /\ predictions = [k \in {} |-> 0]
  /\ starts = NoCalls
  /\ now = 0 /\ oracle = NoOracle /\ jobs = NoCalls
  /\ timers = <<>> /\ sched = NoSched
  /\ credited = [k \in (DOMAIN rds) \X (DOMAIN bals) |-> 0]

\* One user, NumParallel calls with the same amount issued together, each on
\* any of NumParallel ACTIVE rounds of one mode, with a selector of that mode.
InitSameUser ==
  \E a \in 1..MaxAmount, b \in 0..MaxBalance, mode \in Modes,
     rs \in [1..NumParallel -> 1..NumParallel] :
    /\ InitDb([u \in {1} |-> b], [r \in 1..NumParallel |-> ActiveRound(mode)])
    /\ submits = [c \in 1..NumParallel |->
                   IF mode = "UP_DOWN" THEN SubmitCall(1, rs[c], a, "UP", NULL)
                   ELSE SubmitCall(1, rs[c], a, "NONE", Some(RangeArg(1)))]
    /\ resolves = NoCalls

\* The selectors a request can carry: a side, a range, neither or both.
Selectors ==
  { <<"UP", NULL>>, <<"DOWN", NULL>>, <<"NONE", NULL>>,
    <<"NONE", Some(RangeArg(1))>>, <<"NONE", Some(RangeArg(2))>>,
    <<"NONE", Some(UndeclaredRange)>>, <<"UP", Some(RangeArg(1))>> }

\* Rounds 1 (UP_DOWN) and 2 (LEGENDS) are ACTIVE; round 3 does not exist.
StakeRounds == [r \in 1..2 |-> ActiveRound(IF r = 1 THEN "UP_DOWN" ELSE "LEGENDS")]

\* NumSubmits calls issued together, by any users on any rounds with any
\* amounts and selectors.
InitStake ==
  \E bals \in [1..NumUsers -> 0..MaxBalance] :
    /\ InitDb(bals, StakeRounds)
    /\ submits \in [1..NumSubmits ->
         { SubmitCall(u, r, a, sel[1], sel[2]) :
             u \in 1..NumUsers, r \in 1..3, a \in 1..MaxAmount, sel \in Selectors }]
    /\ resolves = NoCalls

NextStake == \E c \in SubmitCalls : SubmitStep(c)

SpecSameUser == InitSameUser /\ [][NextStake]_vars
SpecStake == InitStake /\ [][NextStake]_vars

\* Round 1 is ACTIVE, of either mode; round 2 is PENDING, round 3 CANCELLED and
\* round 4 does not exist.  Every user stakes on round 1; the first call
\* resolves round 1, the others any round, each with any final price.
SettleRounds(mode) ==
  [r \in 1..3 |->
     IF r = 1 THEN ActiveRound(mode)
     ELSE NewRound("UP_DOWN", IF r = 2 THEN "PENDING" ELSE "CANCELLED",
                   MidPrice, NULL)]

ModeSelector(mode, k) ==
  IF mode = "UP_DOWN" THEN <<(IF k = 1 THEN "UP" ELSE "DOWN"), NULL>>
  ELSE <<"NONE", Some(RangeArg(k))>>

\* The stakers are interchangeable: they are numbered in the order of their
\* (amount, selector).
InitSettle(stakers, resolvers) ==
  \E mode \in Modes :
    /\ InitDb([u \in 1..stakers |-> MaxBalance], SettleRounds(mode))
    /\ \E as \in [1..stakers -> 1..MaxAmount], ks \in [1..stakers -> 1..2] :
         /\ \A c \in 1..(stakers - 1) : 2 * as[c] + ks[c] <= 2 * as[c + 1] + ks[c + 1]
         /\ submits = [c \in 1..stakers |->
                         SubmitCall(c, 1, as[c], ModeSelector(mode, ks[c])[1],
                                    ModeSelector(mode, ks[c])[2])]
    /\ resolves \in [1..resolvers ->
         { ResolveCall(r, p) : r \in 1..4, p \in 1..MaxPrice }]
    /\ resolves[1].roundId = 1

Next ==
  \/ \E c \in SubmitCalls : SubmitStep(c)
  \/ \E c \in ResolveCalls : ResolveStep(c)
  \/ \E r \in DOMAIN rounds : LockRound(r)

NextPayout ==
  \/ \E c \in SubmitCalls : SubmitStep(c)
  \/ \E c \in ResolveCalls : ResolveStep(c)

\* Concurrent resolution: one staker, NumResolves resolving calls, locking.
Spec == InitSettle(1, NumResolves) /\ [][Next]_vars

\* Payout arithmetic: NumStakers stakers, one resolving call.
SpecPayout == InitSettle(NumStakers, 1) /\ [][NextPayout]_vars

\* Resolution tick after tick: a resolveRound call starts only when the calls
\* of the earlier ticks have ended, by success or by failure.
NextRetry ==
  \/ \E c \in SubmitCalls : SubmitStep(c)
  \/ \E c \in ResolveCalls :
       /\ \A b \in ResolveCalls : b < c => resolves[b].pc = "done"
       /\ ResolveStep(c)
  \/ \E r \in DOMAIN rounds : LockRound(r)

\* Retried resolution: one staker, NumResolves resolving calls in sequence.
SpecRetry == InitSettle(1, NumResolves) /\ [][NextRetry]_vars

\* Up to two rounds exist, each ACTIVE, LOCKED or RESOLVED, at most one ACTIVE
\* per mode; NumStarts creations are issued together, by the admin (a positive
\* price) or by the scheduler (the oracle's price).
InitStart ==
  /\ balance = NoCalls /\ balance0 = NoCalls
  /\ now = 0 /\ jobs = NoCalls /\ oracle \in OracleStates
  /\ timers = <<>> /\ sched = NoSched
  /\ predictions = [k \in {} |-> 0] /\ credited = [k \in {} |-> 0]
  /\ submits = NoCalls /\ resolves = NoCalls
  /\ \E n \in 0..2 :
       \E rds \in [1..n -> { NewRound(m, st, MidPrice,
                                     IF m = "LEGENDS" THEN DeclaredRanges ELSE NULL) :
                              m \in Modes, st \in {"ACTIVE", "LOCKED", "RESOLVED"} }] :
         /\ \A i, j \in 1..n :
              (i # j /\ rds[i].status = "ACTIVE" /\ rds[j].status = "ACTIVE")
              => rds[i].mode # rds[j].mode
         /\ rounds = rds
  /\ starts \in [1..NumStarts ->
       { StartCall("admin", m, MidPrice) : m \in Modes }
       \cup { StartCall("scheduler", m, 0) : m \in Modes }]

NextStart ==
  \/ \E c \in StartCalls : StartStep(c)
  \/ \E r \in DOMAIN rounds : LockRound(r)

\* Round creation: concurrent startRound requests and create jobs, locking.
SpecStart == InitStart /\ [][NextStart]_vars

\* The end times of the rounds at time 0: the resolve job's boundary, one
\* unit inside the buffer, now, and the future.
EndTimes == {0 - BUFFER, 1 - BUFFER, 0, 1}

\* A round of the scheduler's database: a RESOLVED round has its end price.
SchedRound(mode, status, endTime, pool) ==
  [NewRound(mode, status, MidPrice,
            IF mode = "LEGENDS" THEN DeclaredRanges ELSE NULL)
     EXCEPT !.endTime = endTime, !.poolUp = pool,
            !.endPrice = IF status = "RESOLVED" THEN Some(MidPrice) ELSE NULL,
            !.resolvedAt = IF status = "RESOLVED" THEN Some(endTime) ELSE NULL]

JobKinds == <<Job("resolve", 0), Job("close", 0), Job("lock", 1), Job("lock", 2)>>

\* Round 1 (UP_DOWN, one stake of 1 on UP) and round 2 (LEGENDS, no stake), in
\* any status and with any end time; the oracle in any state; NumJobs jobs
\* issued together, numbered in the order of their kinds.
InitSched ==
  /\ balance = <<MaxBalance - 1>> /\ balance0 = <<MaxBalance - 1>>
  /\ predictions = (<<1, 1>> :> <<NewPrediction(1, "UP", NULL)>>)
  /\ credited = [k \in (1..2) \X {1} |-> 0]
  /\ submits = NoCalls /\ resolves = NoCalls /\ starts = NoCalls
  /\ now = 0 /\ timers = <<>> /\ sched = NoSched
  /\ oracle \in OracleStates
  /\ \E st \in [1..2 -> {"ACTIVE", "LOCKED", "RESOLVED", "CANCELLED"}],
        et \in [1..2 -> EndTimes] :
       rounds = [r \in 1..2 |->
                   SchedRound(IF r = 1 THEN "UP_DOWN" ELSE "LEGENDS",
                              st[r], et[r], IF r = 1 THEN 1 ELSE 0)]
  /\ \E ks \in [1..NumJobs -> 1..Len(JobKinds)] :
       /\ \A j \in 1..(NumJobs - 1) : ks[j] <= ks[j + 1]
       /\ jobs = [j \in 1..NumJobs |-> JobKinds[ks[j]]]

NextSched ==
  \/ \E j \in Jobs : JobStep(j)
  \/ \E c \in ResolveCalls : ResolveStep(c)
  \/ Tick

\* The scheduler: resolve ticks, lock ticks and lockRound calls while time
\* passes.
SpecSched == InitSched /\ [][NextSched]_vars

\* The three jobs together: both rounds ACTIVE or LOCKED, ended BUFFER ago or
\* just now; two create jobs of one mode, a resolve tick, a lock tick and a
\* lockRound call issued together.
InitJobs ==
  /\ balance = <<MaxBalance - 1>> /\ balance0 = <<MaxBalance - 1>>
  /\ predictions = (<<1, 1>> :> <<NewPrediction(1, "UP", NULL)>>)
  /\ credited = [k \in (1..2) \X {1} |-> 0]
  /\ submits = NoCalls /\ resolves = NoCalls
  /\ now = 0 /\ timers = <<>> /\ sched = NoSched
  /\ oracle \in OracleStates
  /\ \E st \in [1..2 -> {"ACTIVE", "LOCKED"}], et \in [1..2 -> {0 - BUFFER, 0}] :
       rounds = [r \in 1..2 |->
                   SchedRound(IF r = 1 THEN "UP_DOWN" ELSE "LEGENDS",
                              st[r], et[r], IF r = 1 THEN 1 ELSE 0)]
  /\ \E m \in Modes : starts = [c \in 1..2 |-> StartCall("scheduler", m, 0)]
  /\ jobs = <<Job("resolve", 0), Job("close", 0), Job("lock", 1)>>

NextJobs ==
  \/ \E c \in StartCalls : StartStep(c)
  \/ \E j \in Jobs : JobStep(j)
  \/ \E c \in ResolveCalls : ResolveStep(c)
  \/ Tick

\* The scheduler's create, lock and resolve jobs running together.
SpecJobs == InitJobs /\ [][NextJobs]_vars

\* The oracle in any state at time 0, not polling; then startPolling,
\* stopPolling, the timer and the fetches while time passes.
InitOracle ==
  /\ balance = NoCalls /\ balance0 = NoCalls
  /\ predictions = [k \in {} |-> 0] /\ credited = [k \in {} |-> 0]
  /\ rounds = <<>> /\ submits = NoCalls /\ resolves = NoCalls /\ starts = NoCalls
  /\ now = 0 /\ timers = <<>> /\ sched = NoSched /\ jobs = NoCalls
  /\ oracle \in OracleStates

NextOracle ==
  \/ StartPolling
  \/ StopPolling
  \/ \E t \in DOMAIN timers : PollingTimerFires(t)
  \/ \E j \in Jobs : FetchPrice(j)
  \/ Tick

\* The price oracle: its polling lifecycle and its fetches.
SpecOracle == InitOracle /\ [][NextOracle]_vars

\* ROUND_SCHEDULER_ENABLED and AUTO_RESOLVE_ENABLED are "true", "false" or not
\* set; nothing is scheduled yet.
EnvFlags == {"true", "false", "unset"}

InitCron ==
  /\ balance = NoCalls /\ balance0 = NoCalls
  /\ predictions = [k \in {} |-> 0] /\ credited = [k \in {} |-> 0]
  /\ rounds = <<>> /\ submits = NoCalls /\ resolves = NoCalls /\ starts = NoCalls
  /\ now = 0 /\ timers = <<>> /\ jobs = NoCalls /\ oracle = NoOracle
  /\ \E a, b \in EnvFlags : sched = Sched(a, b)

NextCron ==
  \/ RoundSchedulerStart
  \/ RoundSchedulerStop
  \/ SchedulerStart
  \/ Cleanup
  \/ \E t \in DOMAIN timers : CronFires(t)

\* The two scheduler services: start, stop, the server's cleanup, the jobs
\* firing.
SpecCron == InitCron /\ [][NextCron]_vars

\* cron runs the callback of job j, scheduled as timer j, again at its next
\* tick: the job starts over; the resolveRound calls of the tick before, all
\* ended, are forgotten.  fired counts the ticks up to MaxFailTicks.
NextTick(j) ==
  /\ jobs[j].pc = "done"
  /\ timers[j].active
  /\ jobs' = [jobs EXCEPT ![j] = Job(jobs[j].kind, 0)]
  /\ timers' = [timers EXCEPT ![j].fired =
                  IF @ < MaxFailTicks THEN @ + 1 ELSE @]
  /\ resolves' = IF jobs[j].kind = "resolve" THEN NoCalls ELSE resolves
  /\ UNCHANGED <<balance, rounds, predictions, submits, starts, now, oracle,
               sched, balance0, credited>>

\* The queries and the external calls eventually succeed: none fails in a
\* tick after the first MaxFailTicks ticks of its job.
QueryFailed(j) == jobs'[j].result \in {ErrQuery, ErrLock}
CallFailed(c) == resolves'[c].result \in {ErrSorobanResolve, ErrNotification}
Reliable(j, failed) == failed => timers[j].fired < MaxFailTicks

\* The oracle never fetched, or holding a price fetched just now: the round's
\* start price (a tie) or a higher one (UP wins).
LiveOracles ==
  {NoOracle, FetchedOracle(MidPrice, 0), FetchedOracle(MaxPrice, 0)}

\* Round 1 (UP_DOWN, one stake of 1 on UP) with any end time and round 2
\* (LEGENDS, no stake) ended BUFFER ago, both ACTIVE; the resolve job, timer
\* 1, and the lock job, timer 2, at their first tick.
InitLive ==
  /\ balance = <<MaxBalance - 1>> /\ balance0 = <<MaxBalance - 1>>
  /\ predictions = (<<1, 1>> :> <<NewPrediction(1, "UP", NULL)>>)
  /\ credited = [k \in (1..2) \X {1} |-> 0]
  /\ submits = NoCalls /\ resolves = NoCalls /\ starts = NoCalls
  /\ now = 0 /\ sched = NoSched
  /\ timers = <<Timer("resolve", "autoResolveRounds"),
                Timer("round", "closeEligibleRounds")>>
  /\ oracle \in LiveOracles
  /\ \E et \in EndTimes :
       rounds = <<SchedRound("UP_DOWN", "ACTIVE", et, 1),
                  SchedRound("LEGENDS", "ACTIVE", 0 - BUFFER, 0)>>
  /\ jobs = <<Job("resolve", 0), Job("close", 0)>>

\* The steps of job j and of the resolveRound call c in SpecLive.
LiveJob(j) ==
  \/ AutoResolveRounds(j) /\ Reliable(j, QueryFailed(j))
  \/ AutoResolveNext(j)
  \/ CloseEligibleRounds(j) /\ Reliable(j, QueryFailed(j))
  \/ AutoLockExpiredRounds(j) /\ Reliable(j, QueryFailed(j))
  \/ NextTick(j)

LiveCall(c) ==
  /\ c \in ResolveCalls
  /\ ResolveStep(c)
  /\ Reliable(1, CallFailed(c))

NextLive ==
  \/ \E j \in Jobs : LiveJob(j)
  \/ \E c \in ResolveCalls : LiveCall(c)
  \/ Tick

\* Call c has a statement left to run; a step of call c.  No transaction holds
\* a row here and a statement can always succeed, so CallPending(c) is
\* ENABLED <<LiveCall(c)>>_vars, and the steps that change resolves[c] are the
\* steps of LiveCall(c).
CallPending(c) == c \in ResolveCalls /\ resolves[c].pc # "done"
CallMoved(c) ==
  c \in ResolveCalls /\ c \in DOMAIN resolves' /\ resolves'[c] # resolves[c]

\* Time passes, the ticks keep firing and every statement that is enabled is
\* run: weak fairness of the clock, of each job and of each resolveRound
\* call, the last with its ENABLED written as CallPending.
FairLive ==
  /\ WF_vars(Tick)
  /\ \A j \in 1..2 : WF_vars(LiveJob(j))
  /\ \A c \in 1..2 : ([]<>(~ CallPending(c))) \/ ([]<><<CallMoved(c)>>_vars)

\* The lock job and the resolve job ticking for ever over two ACTIVE rounds.
SpecLive == InitLive /\ [][NextLive]_vars /\ FairLive

\* ================================================================ claims
OkSubmits == {c \in SubmitCalls : submits[c].result = "ok"}
AllSubmitsDone == \A c \in SubmitCalls : submits[c].pc = "done"

RECURSIVE SumAmounts(_)
SumAmounts(S) ==
  IF S = {} THEN 0
  ELSE LET c == CHOOSE x \in S : TRUE
       IN submits[c].amount + SumAmounts(S \ {c})

\* Everything staked in a round's pools.
TotalPool(r) ==
  rounds[r].poolUp + rounds[r].poolDown + SumPools(rounds[r].priceRanges, 1)

SameStake ==
  \A c, d \in SubmitCalls :
     submits[c].roundId = submits[d].roundId /\ submits[c].userId = submits[d].userId

DistinctRounds ==
  \A c, d \in SubmitCalls : c # d => submits[c].roundId # submits[d].roundId

PendingDebit(u) ==
  SumAmounts({c \in SubmitCalls : submits[c].userId = u /\ HoldsUser(c)})

\* C2 (SpecStake): no balance is ever negative, neither as committed nor as
\* the open transaction that decremented it sees it; and a decrement issued
\* when the balance is below the amount fails with "Insufficient balance" and
\* changes no balance.
C2_NoOverdraft ==
  /\ [](\A u \in Users : balance[u] - PendingDebit(u) >= 0)
  /\ [][\A c \in SubmitCalls :
          (/\ submits[c].pc = "updateUser"
           /\ submits'[c].pc # "updateUser"
           /\ balance[submits[c].userId] < submits[c].amount)
          => /\ submits'[c].result = ErrInsufficient
             /\ balance' = balance]_vars

\* C2 witness: a call failed for insufficient balance although the balance
\* covered it when the calls were issued: another call of the user took it.
C2_Witness ==
  \E c, d \in SubmitCalls :
     /\ c # d
     /\ submits[c].userId = submits[d].userId
     /\ submits[c].result = ErrInsufficient
     /\ submits[d].result = "ok"
     /\ balance0[submits[c].userId] >= submits[c].amount

C4_RollbackOnExternalFailure ==
  \A c \in SubmitCalls :
     submits[c].result = ErrSoroban =>
       LET u == submits[c].userId
           r == submits[c].roundId
       IN /\ submits[c].pc = "done"
          /\ balance[u] =
               balance0[u] - SumAmounts({d \in OkSubmits : submits[d].userId = u})
          /\ Len(RowsOf(r, u)) =
               Cardinality({d \in OkSubmits :
                               submits[d].userId = u /\ submits[d].roundId = r})
          /\ rounds[r].poolUp =
               SumAmounts({d \in OkSubmits :
                             submits[d].roundId = r /\ submits[d].side = "UP"})
          /\ rounds[r].poolDown =
               SumAmounts({d \in OkSubmits :
                             submits[d].roundId = r /\ submits[d].side = "DOWN"})

\* C4 witness: placeBet threw after the decrement, the row and the pool update.
C4_Witness == \E c \in SubmitCalls : submits[c].result = ErrSoroban

\* ---------------------------------------------------------- resolution
OkResolves(r) ==
  {c \in ResolveCalls : resolves[c].roundId = r /\ resolves[c].result = "ok"}

\* C5 (Spec): whatever the interleaving of the resolveRound calls on a round,
\* at most one of them resolves it and no stake's payout or refund is credited
\* to its owner more than once.
C5_NoDoubleResolution ==
  /\ \A r \in DOMAIN rounds : Cardinality(OkResolves(r)) <= 1
  /\ \A k \in DOMAIN credited : credited[k] <= 1

\* The error the claim names for a call on round r, or "" (ACTIVE or LOCKED).
C6_Rejection(r) ==
  IF r \notin DOMAIN rounds THEN "Round not found"
  ELSE IF rounds[r].status = "RESOLVED" THEN "Round already resolved"
  ELSE IF rounds[r].status \in {"PENDING", "CANCELLED"}
  THEN "Round must be locked or active to resolve"
  ELSE ""

\* C6 (Spec): a resolveRound call that finds its round missing, already
\* RESOLVED (an earlier call completed) or neither ACTIVE nor LOCKED ends at
\* once with the error for that case, and changes no balance, stake or round.
C6_ResolveGuard ==
  [][\A c \in ResolveCalls :
       (/\ resolves[c].pc = "findRound"
        /\ resolves'[c].pc # "findRound"
        /\ C6_Rejection(resolves[c].roundId) # "")
       => /\ resolves'[c].pc = "done"
          /\ resolves'[c].result = C6_Rejection(resolves[c].roundId)
          /\ UNCHANGED <<balance, rounds, predictions, credited>>]_vars

\* C6 witness: a call resolved the round and paid a stake; the other call came
\* after it and was refused, the stake still credited once.
C6_Witness ==
  \E c, d \in ResolveCalls :
     /\ resolves[c].result = "ok"
     /\ resolves[d].roundId = resolves[c].roundId
     /\ resolves[d].result = ErrAlreadyResolved
     /\ \E u \in Users : credited[<<resolves[c].roundId, u>>] = 1

\* The payouts now stored on the stakes a resolution read.
RECURSIVE StoredPayouts(_, _)
StoredPayouts(call, i) ==
  IF i > Len(call.preds) THEN 0
  ELSE LET row == predictions[<<call.roundId, call.preds[i].userId>>][call.preds[i].n]
       IN (IF row.payout = NULL THEN 0 ELSE row.payout[1])
          + StoredPayouts(call, i + 1)

\* The amounts of the stakes a resolution read.
RECURSIVE StakesRead(_, _)
StakesRead(call, i) ==
  IF i > Len(call.preds) THEN 0
  ELSE call.preds[i].amount + StakesRead(call, i + 1)

\* C7 (SpecPayout): once a round whose pools hold exactly its stakes is
\* resolved, the payouts stored on its stakes add up to W + L when the
\* winning pool W is not zero, and to the round's total pool when everyone is
\* refunded.
C7_Conservation ==
  \A c \in ResolveCalls :
     resolves[c].result = "ok" =>
       LET call == resolves[c]
           total == call.round.poolUp + call.round.poolDown
                      + SumPools(call.round.priceRanges, 1)
       IN (/\ Kind(call) \in {"payout", "refund"}
           /\ total = StakesRead(call, 1))
          => StoredPayouts(call, 1) = total

\* a + (a / W) * L at the stored precision: the nearest whole number of units,
\* a half rounded up.
RoundedPayout(a, W, L) == (2 * a * (W + L) + W) \div (2 * W)

\* C8, for the current prediction of call c: see C8_BinaryPayout.
C8_Step(c) ==
  LET call == resolves[c]
      p == call.preds[call.i]
      up == call.finalPrice > call.round.startPrice
      W == IF up THEN call.round.poolUp ELSE call.round.poolDown
      L == IF up THEN call.round.poolDown ELSE call.round.poolUp
      wins == p.side = (IF up THEN "UP" ELSE "DOWN")
      pay == IF wins THEN RoundedPayout(p.amount, W, L) ELSE 0
  IN (/\ call.round.mode = "UP_DOWN"
      /\ call.finalPrice # call.round.startPrice
      /\ W > 0)
     => /\ (call.pc = "updatePrediction" /\ resolves'[c].pc = "updateUser")
           => /\ predictions'[<<call.roundId, p.userId>>][p.n].won = Some(wins)
              /\ predictions'[<<call.roundId, p.userId>>][p.n].payout = Some(pay)
        /\ (call.pc = "updateUser" /\ resolves'[c].pc # "updateUser")
           => /\ balance' = [balance EXCEPT ![p.userId] = @ + pay]
              /\ StoreDecimal(WinnerPayout(1033, 2066, 1034)) = 1550

\* C8 (SpecPayout): resolving an UP_DOWN round with finalPrice > startPrice
\* makes UP the winning side, with finalPrice < startPrice DOWN; with winning
\* pool W > 0 and losing pool L every winning stake of amount a is written
\* won = true, payout = a + (a/W)*L and its owner's balance grows by that
\* payout; every losing stake is written won = false, payout = 0 and its
\* owner's balance is left as it was.
C8_BinaryPayout == [][\A c \in ResolveCalls : C8_Step(c)]_vars

\* C8 witness: a resolved round with a winner paid more than its stake and a
\* loser paid nothing.
C8_Witness ==
  /\ rounds[1].mode = "UP_DOWN" /\ rounds[1].status = "RESOLVED"
  /\ \E u, v \in Users :
       /\ RowsOf(1, u) # <<>> /\ RowsOf(1, v) # <<>>
       /\ RowsOf(1, u)[1].won = Some(TRUE)
       /\ RowsOf(1, u)[1].payout # NULL
       /\ RowsOf(1, u)[1].payout[1] > RowsOf(1, u)[1].amount
       /\ balance[u] > balance0[u]
       /\ RowsOf(1, v)[1].won = Some(FALSE)
       /\ RowsOf(1, v)[1].payout = Some(0)

\* C9 (SpecPayout): once an UP_DOWN round is resolved with finalPrice equal
\* to startPrice, every stake the resolution read has won = null and payout =
\* its amount, and its owner's balance is what it was before the stake.
C9_TieRefund ==
  \A c \in ResolveCalls :
     (/\ resolves[c].result = "ok"
      /\ resolves[c].round.mode = "UP_DOWN"
      /\ resolves[c].finalPrice = resolves[c].round.startPrice)
     => \A i \in 1..Len(resolves[c].preds) :
          LET p == resolves[c].preds[i]
              row == predictions[<<resolves[c].roundId, p.userId>>][p.n]
          IN /\ row.won = NULL
             /\ row.payout = Some(p.amount)
             /\ balance[p.userId] = balance0[p.userId]

\* C9 witness: a tie resolved with stakes on both sides refunded.
C9_Witness ==
  \E c \in ResolveCalls :
     /\ resolves[c].result = "ok"
     /\ resolves[c].round.mode = "UP_DOWN"
     /\ resolves[c].finalPrice = resolves[c].round.startPrice
     /\ resolves[c].round.poolUp > 0
     /\ resolves[c].round.poolDown > 0

\* C10, for the current prediction of call c: see C10_RangePayout.
C10_Step(c) ==
  LET call == resolves[c]
      p == call.preds[call.i]
      ranges == call.round.priceRanges
      holds(j) == ranges[j].min <= call.finalPrice /\ call.finalPrice < ranges[j].max
      j == CHOOSE k \in 1..Len(ranges) : holds(k)
      W == ranges[j].pool
      L == SumPools(ranges, 1) - W
      wins == p.priceRange[1].min = ranges[j].min /\ p.priceRange[1].max = ranges[j].max
      pay == IF wins THEN RoundedPayout(p.amount, W, L) ELSE 0
  IN (/\ call.round.mode = "LEGENDS"
      /\ \E k \in 1..Len(ranges) : holds(k)
      /\ W > 0)
     => /\ (call.pc = "updatePrediction" /\ resolves'[c].pc = "updateUser")
           => /\ predictions'[<<call.roundId, p.userId>>][p.n].won = Some(wins)
              /\ predictions'[<<call.roundId, p.userId>>][p.n].payout = Some(pay)
        /\ (call.pc = "updateUser" /\ resolves'[c].pc # "updateUser")
           => balance' = [balance EXCEPT ![p.userId] = @ + pay]

\* C10 (SpecPayout): resolving a LEGENDS round, the winning range is the
\* declared range with min <= finalPrice < max (a price equal to a range's max
\* is in the next range); with W that range's pool, W > 0, and L the sum of
\* the other ranges' pools, every stake on it is written won = true, payout =
\* a + (a/W)*L, credited to its owner; every other stake won = false, payout 0.
C10_RangePayout == [][\A c \in ResolveCalls : C10_Step(c)]_vars

\* C10 witness: resolved at the edge shared by the two ranges: the stake on
\* the upper range won, the stake on the lower range lost.
C10_Witness ==
  /\ rounds[1].mode = "LEGENDS" /\ rounds[1].status = "RESOLVED"
  /\ rounds[1].endPrice = Some(DeclaredRanges[1].max)
  /\ \E u, v \in Users :
       /\ RowsOf(1, u) # <<>> /\ RowsOf(1, v) # <<>>
       /\ RowsOf(1, u)[1].priceRange = Some(RangeArg(2))
       /\ RowsOf(1, u)[1].won = Some(TRUE)
       /\ balance[u] > balance0[u]
       /\ RowsOf(1, v)[1].priceRange = Some(RangeArg(1))
       /\ RowsOf(1, v)[1].won = Some(FALSE)
       /\ RowsOf(1, v)[1].payout = Some(0)

\* The amounts of the stakes user u has committed on round r.
RECURSIVE StakedBy(_, _, _)
StakedBy(r, u, n) ==
  IF n > Len(RowsOf(r, u)) THEN 0
  ELSE RowsOf(r, u)[n].amount + StakedBy(r, u, n + 1)

\* C11 (SpecPayout): once a LEGENDS round is resolved at a price that lies in
\* none of its declared ranges, the round is RESOLVED, every stake the
\* resolution read has won = null and payout = its amount, and its owner's
\* balance has been credited that amount back.
C11_NoMatchRefund ==
  \A c \in ResolveCalls :
     (/\ resolves[c].result = "ok"
      /\ resolves[c].round.mode = "LEGENDS"
      /\ \A j \in 1..Len(resolves[c].round.priceRanges) :
           \/ resolves[c].finalPrice < resolves[c].round.priceRanges[j].min
           \/ resolves[c].finalPrice >= resolves[c].round.priceRanges[j].max)
     => /\ rounds[resolves[c].roundId].status = "RESOLVED"
        /\ \A i \in 1..Len(resolves[c].preds) :
             LET p == resolves[c].preds[i]
                 row == predictions[<<resolves[c].roundId, p.userId>>][p.n]
             IN /\ row.won = NULL
                /\ row.payout = Some(p.amount)
                /\ credited[<<resolves[c].roundId, p.userId>>] = 1
                /\ balance[p.userId] = balance0[p.userId]

\* C11 witness: a LEGENDS round with stakes on both ranges resolved above
\* every range.
C11_Witness ==
  \E c \in ResolveCalls :
     /\ resolves[c].result = "ok"
     /\ resolves[c].round.mode = "LEGENDS"
     /\ resolves[c].finalPrice >= DeclaredRanges[2].max
     /\ resolves[c].round.priceRanges[1].pool > 0
     /\ resolves[c].round.priceRanges[2].pool > 0
     /\ Len(resolves[c].preds) >= 2

\* The winning pool is empty: nobody staked the side the price moved to, or
\* the range the price fell in.
C12_NoWinner(call) ==
  IF call.round.mode = "UP_DOWN"
  THEN \/ call.finalPrice > call.round.startPrice /\ call.round.poolUp = 0
       \/ call.finalPrice < call.round.startPrice /\ call.round.poolDown = 0
  ELSE \E j \in 1..Len(call.round.priceRanges) :
          /\ call.round.priceRanges[j].min <= call.finalPrice
          /\ call.finalPrice < call.round.priceRanges[j].max
          /\ call.round.priceRanges[j].pool = 0

\* C12 (SpecPayout): once a round is resolved with an empty winning pool, no
\* balance has been credited (every user is still short of the stakes it
\* placed), and the round is RESOLVED with endPrice and resolvedAt set.
C12_Forfeiture ==
  \A c \in ResolveCalls :
     (resolves[c].result = "ok" /\ C12_NoWinner(resolves[c]))
     => /\ \A u \in Users :
             /\ credited[<<resolves[c].roundId, u>>] = 0
             /\ balance[u] = balance0[u] - StakedBy(resolves[c].roundId, u, 1)
        /\ rounds[resolves[c].roundId].status = "RESOLVED"
        /\ rounds[resolves[c].roundId].endPrice = Some(resolves[c].finalPrice)
        /\ rounds[resolves[c].roundId].resolvedAt # NULL

\* C12 witness: the price rose, every stake was on DOWN, nothing came back.
C12_Witness ==
  \E c \in ResolveCalls :
     /\ resolves[c].result = "ok"
     /\ resolves[c].round.mode = "UP_DOWN"
     /\ resolves[c].finalPrice > resolves[c].round.startPrice
     /\ resolves[c].round.poolUp = 0
     /\ resolves[c].round.poolDown > 0
     /\ \E u \in Users : balance[u] < balance0[u]

\* ------------------------------------------------------ round creation
ActiveRoundsOf(mode) ==
  {r \in DOMAIN rounds : rounds[r].mode = mode /\ rounds[r].status = "ACTIVE"}

\* C13 (SpecStart): whatever the interleaving of the admin's startRound
\* requests and the scheduler's create jobs, at most one round of each mode
\* is ACTIVE.
C13_OneActivePerMode ==
  \A mode \in Modes : Cardinality(ActiveRoundsOf(mode)) <= 1

\* C13 witness: a create job saw no ACTIVE round, lost the race to another
\* creation of its mode and was refused by startRound.
C13_Witness ==
  \E c, d \in StartCalls :
     /\ c # d
     /\ starts[c].kind = "scheduler"
     /\ starts[c].result = "ACTIVE_ROUND_EXISTS"
     /\ starts[d].mode = starts[c].mode
     /\ starts[d].result = "ok"
     /\ Cardinality(ActiveRoundsOf(starts[c].mode)) = 1

\* C14, for call c: see C14_StartRound.
C14_Step(c) ==
  (starts[c].pc = "startRound" /\ starts'[c].pc = "done")
  => IF ActiveRoundsOf(starts[c].mode) # {}
     THEN /\ starts'[c].result = "ACTIVE_ROUND_EXISTS"
          /\ rounds' = rounds
     ELSE /\ starts'[c].result = "ok"
          /\ Len(rounds') = Len(rounds) + 1
          /\ \A r \in DOMAIN rounds : rounds'[r] = rounds[r]
          /\ rounds'[Len(rounds')].mode = starts[c].mode
          /\ rounds'[Len(rounds')].status = "ACTIVE"
          /\ rounds'[Len(rounds')].poolUp = 0
          /\ rounds'[Len(rounds')].poolDown = 0
          /\ SumPools(rounds'[Len(rounds')].priceRanges, 1) = 0

\* C14 (SpecStart): startRound(mode) fails with ActiveRoundExists and creates
\* nothing exactly when a round of that mode is ACTIVE; otherwise (rounds of
\* the other mode ACTIVE, rounds of its mode LOCKED or RESOLVED) it creates one
\* round, ACTIVE, of that mode, with zeroed pools.
C14_StartRound == [][\A c \in StartCalls : C14_Step(c)]_vars

\* C14 witness: a round was started while an earlier round of its mode was
\* LOCKED and a round of the other mode was ACTIVE.
C14_Witness ==
  \E c \in StartCalls, r, q \in DOMAIN rounds :
     /\ starts[c].result = "ok"
     /\ Len(rounds) >= 3
     /\ rounds[Len(rounds)].mode = starts[c].mode
     /\ rounds[Len(rounds)].status = "ACTIVE"
     /\ rounds[r].mode = starts[c].mode /\ rounds[r].status = "LOCKED"
     /\ rounds[q].mode # starts[c].mode /\ rounds[q].status = "ACTIVE"

\* ------------------------------------------------- staking and the round
\* C15 (Spec): whatever the interleaving of submitPrediction with lockRound
\* and resolveRound, a call that reads its round LOCKED or RESOLVED fails
\* with "Round is not active", and a stake is committed (row, debit and pool
\* increment) only while the round is ACTIVE.
C15_StakeOnlyWhileActive ==
  [][\A c \in SubmitCalls :
       LET r == submits[c].roundId
       IN /\ (/\ submits[c].pc = "findRound"
              /\ submits'[c].pc # "findRound"
              /\ r \in DOMAIN rounds
              /\ rounds[r].status \in {"LOCKED", "RESOLVED"})
             => submits'[c].result = "Round is not active"
          /\ (submits[c].result # "ok" /\ submits'[c].result = "ok")
             => rounds[r].status = "ACTIVE"]_vars

\* ------------------------------------------------ failures of resolution
\* The errors that interrupt a resolution after its checks.
ResolveFailures == {ErrSorobanResolve, ErrNotification}

\* C16 (SpecPayout): when a resolveRound call has failed partway, nothing it
\* wrote remains: no stake of the round has won or payout set, no balance was
\* credited, and the round's status, endPrice and resolvedAt are as they were.
C16_AllOrNothing ==
  \A c \in ResolveCalls :
     resolves[c].result \in ResolveFailures =>
       LET r == resolves[c].roundId
       IN /\ \A u \in Users :
               /\ credited[<<r, u>>] = 0
               /\ \A n \in 1..Len(RowsOf(r, u)) :
                    RowsOf(r, u)[n].won = NULL /\ RowsOf(r, u)[n].payout = NULL
               /\ balance[u] = balance0[u] - StakedBy(r, u, 1)
          /\ rounds[r].status = resolves[c].round.status
          /\ rounds[r].endPrice = NULL
          /\ rounds[r].resolvedAt = NULL

\* C17 (SpecRetry): when a resolveRound call on a round has failed partway
\* and a later call on the same round, made after that failure, completes, the
\* round is RESOLVED and no stake's owner has been credited more than once.
C17_SafeRetry ==
  \A c, d \in ResolveCalls :
     (/\ c < d
      /\ resolves[d].roundId = resolves[c].roundId
      /\ resolves[c].result \in ResolveFailures
      /\ resolves[d].result = "ok")
     => /\ rounds[resolves[d].roundId].status = "RESOLVED"
        /\ \A u \in Users : credited[<<resolves[d].roundId, u>>] <= 1

\* ------------------------------------------------ failures of staking
\* The validation and state errors of submitPrediction.
SubmitRejections ==
  {"Round not found", "Round is not active",
   "User has already placed a prediction for this round",
   "P2002 Unique constraint failed",
   "Insufficient balance", "Side (UP/DOWN) is required for UP_DOWN mode",
   "Price range is required for LEGENDS mode", "Invalid price range",
   "Invalid game mode"}

RECURSIVE RowsOfUser(_, _)
RowsOfUser(u, r) ==
  IF r \notin DOMAIN rounds THEN 0 ELSE Len(RowsOf(r, u)) + RowsOfUser(u, r + 1)

\* C18 (SpecStake): a submitPrediction call that fails for a validation or
\* state reason changes no balance, stake or pool when it fails, and leaves
\* nothing behind: its user's balance is the initial one less the amounts of
\* the user's successful calls, and the user has one stake per successful call.
C18_FailedStakeLeavesNothing ==
  /\ [][\A c \in SubmitCalls :
          (/\ submits[c].pc # "done"
           /\ submits'[c].pc = "done"
           /\ submits'[c].result \in SubmitRejections)
          => UNCHANGED <<balance, predictions, rounds>>]_vars
  /\ [](\A c \in SubmitCalls :
          submits[c].result \in SubmitRejections =>
            LET u == submits[c].userId
                mine == {d \in SubmitCalls : submits[d].userId = u
                                             /\ submits[d].result = "ok"}
            IN /\ balance[u] = balance0[u] - SumAmounts(mine)
               /\ RowsOfUser(u, 1) = Cardinality(mine))

\* C18 witness: a call failed on a check that runs after the decrement and
\* the insert (side missing, range missing or undeclared) while the other
\* call of the same user succeeded.
C18_Witness ==
  \E c, d \in SubmitCalls :
     /\ submits[c].result \in {"Side (UP/DOWN) is required for UP_DOWN mode",
                               "Price range is required for LEGENDS mode",
                               "Invalid price range"}
     /\ submits[d].userId = submits[c].userId
     /\ submits[d].result = "ok"

\* C19 (SpecSameUser): when several calls of one user on one round have been
\* issued together and one of them succeeded, every other one has failed with
\* "User has already placed a prediction for this round".
C19_DuplicateError ==
  \A c, d \in SubmitCalls :
     (/\ c # d
      /\ submits[c].roundId = submits[d].roundId
      /\ submits[c].userId = submits[d].userId
      /\ submits[d].result = "ok"
      /\ submits[c].pc = "done")
     => submits[c].result = "User has already placed a prediction for this round"

\* C20 (SpecStake): a submitPrediction call succeeds only with exactly one
\* selector, the one of its round's mode: a side and no range on an UP_DOWN
\* round, a declared range and no side on a LEGENDS round.
C20_SelectorMatchesMode ==
  \A c \in SubmitCalls :
     submits[c].result = "ok" =>
       LET round == rounds[submits[c].roundId]
       IN IF round.mode = "UP_DOWN"
          THEN submits[c].side \in {"UP", "DOWN"} /\ submits[c].priceRange = NULL
          ELSE /\ submits[c].side = "NONE"
               /\ submits[c].priceRange # NULL
               /\ \E j \in 1..Len(round.priceRanges) :
                    /\ round.priceRanges[j].min = submits[c].priceRange[1].min
                    /\ round.priceRanges[j].max = submits[c].priceRange[1].max

\* ------------------------------------------------ the settlement call
\* C21 (SpecStake): in both modes a submitPrediction call reaches its commit
\* only from a successful sorobanService.placeBet for its user, amount and
\* selector: no stake is committed without that call.
C21_PlaceBetGatesCommit ==
  [][\A c \in SubmitCalls :
       (submits[c].pc # "commit" /\ submits'[c].pc = "commit")
       => submits[c].pc = "placeBet"]_vars

\* C22 (SpecPayout): once resolveRound has returned for a round, every stake
\* it read has its payout recorded; and while a round is ACTIVE or LOCKED and
\* no resolution of it has started, none of its stakes has a payout or outcome.
C22_SettledOnce ==
  /\ \A c \in ResolveCalls :
        resolves[c].result = "ok" =>
          \A i \in 1..Len(resolves[c].preds) :
             predictions[<<resolves[c].roundId,
                           resolves[c].preds[i].userId>>][resolves[c].preds[i].n].payout
               # NULL
  /\ \A r \in DOMAIN rounds, u \in Users :
        (/\ rounds[r].status \in {"ACTIVE", "LOCKED"}
         /\ \A c \in ResolveCalls :
               resolves[c].roundId = r => resolves[c].pc = "findRound")
        => \A n \in 1..Len(RowsOf(r, u)) :
              RowsOf(r, u)[n].payout = NULL /\ RowsOf(r, u)[n].won = NULL

\* C23 (Spec): endPrice and resolvedAt are null while the round is not
\* RESOLVED and both set once it is, endPrice being the final price of a call
\* that resolved the round; once set, neither value changes.
C23_EndPriceSetOnce ==
  /\ [](\A r \in DOMAIN rounds :
          IF rounds[r].status = "RESOLVED"
          THEN /\ rounds[r].endPrice # NULL /\ rounds[r].resolvedAt # NULL
               /\ \E c \in ResolveCalls :
                     /\ resolves[c].roundId = r
                     /\ resolves[c].result = "ok"
                     /\ rounds[r].endPrice = Some(resolves[c].finalPrice)
          ELSE rounds[r].endPrice = NULL /\ rounds[r].resolvedAt = NULL)
  /\ [][\A r \in DOMAIN rounds :
          rounds[r].endPrice # NULL
          => /\ rounds'[r].endPrice = rounds[r].endPrice
             /\ rounds'[r].resolvedAt = rounds[r].resolvedAt]_vars

\* ------------------------------------------------------------ the scheduler
LockCalls(r) == {j \in Jobs : jobs[j].kind = "lock" /\ jobs[j].roundId = r}

\* C24, for call j: see C24_LockIdempotent.
C24_Step(j) ==
  (jobs[j].kind = "lock" /\ jobs[j].pc = "start" /\ jobs'[j].pc = "done")
  => LET r == jobs[j].roundId
     IN /\ jobs'[j].outcome = "returned"
        /\ \A q \in DOMAIN rounds : q # r => rounds'[q] = rounds[q]
        /\ IF rounds[r].status = "ACTIVE"
           THEN /\ rounds'[r] = [rounds[r] EXCEPT !.status = "LOCKED"]
                /\ jobs'[j].result = "updated"
           ELSE /\ rounds'[r] = rounds[r]
                /\ jobs'[j].result = IF rounds[r].status = "LOCKED"
                                     THEN "already_locked"
                                     ELSE "already_resolved"

\* C24 (SpecSched): lockRound changes ACTIVE to LOCKED and reports updated; on
\* a LOCKED or RESOLVED round it changes nothing and reports already_locked or
\* already_resolved; of the calls on one round at most one reports updated.
C24_LockIdempotent ==
  /\ [][\A j \in Jobs : C24_Step(j)]_vars
  /\ [](\A r \in DOMAIN rounds :
          Cardinality({j \in LockCalls(r) : jobs[j].result = "updated"}) <= 1)

\* C24 witness: lockRound was called twice on one round: the first call
\* locked it, the second reported already_locked.
C24_Witness ==
  \E j, k \in Jobs :
     /\ j # k
     /\ jobs[j].kind = "lock" /\ jobs[k].kind = "lock"
     /\ jobs[j].roundId = jobs[k].roundId
     /\ jobs[j].result = "updated"
     /\ jobs[k].result = "already_locked"
     /\ rounds[jobs[j].roundId].status = "LOCKED"

\* C25 (SpecStart): the create job goes on to call startRound only if the
\* oracle's price is non-null, positive and not stale, and no round of its
\* mode is ACTIVE.
C25_CreateGating ==
  [][\A c \in StartCalls :
       (starts[c].kind = "scheduler" /\ starts[c].pc = "findFirst"
        /\ starts'[c].pc = "startRound")
       => /\ getPrice # NULL
          /\ getPrice[1] > 0
          /\ ~ isStale
          /\ ActiveRoundsOf(starts[c].mode) = {}]_vars

\* C25, without the staleness: the create job goes on to call startRound only
\* if the oracle's price is non-null and positive and no round of its mode is
\* ACTIVE.
C25_CreateGatingButStale ==
  [][\A c \in StartCalls :
       (starts[c].kind = "scheduler" /\ starts[c].pc = "findFirst"
        /\ starts'[c].pc = "startRound")
       => /\ getPrice # NULL
          /\ getPrice[1] > 0
          /\ ActiveRoundsOf(starts[c].mode) = {}]_vars

\* C26 (SpecSched): a resolve tick that finds the oracle's price null,
\* non-positive or stale ends without calling resolveRound for any round.
C26_ResolvePriceGating ==
  [][\A j \in Jobs :
       (/\ jobs[j].kind = "resolve" /\ jobs[j].pc = "start"
        /\ jobs'[j].pc # "start"
        /\ (getPrice = NULL \/ getPrice[1] <= 0 \/ isStale))
       => /\ resolves' = resolves
          /\ jobs'[j].pc = "done"
          /\ jobs'[j].attempted = <<>>]_vars

\* C26, without the staleness: a resolve tick that finds the oracle's price
\* null or non-positive ends without calling resolveRound for any round.
C26_ResolvePriceGatingButStale ==
  [][\A j \in Jobs :
       (/\ jobs[j].kind = "resolve" /\ jobs[j].pc = "start"
        /\ jobs'[j].pc # "start"
        /\ (getPrice = NULL \/ getPrice[1] <= 0))
       => /\ resolves' = resolves
          /\ jobs'[j].pc = "done"
          /\ jobs'[j].attempted = <<>>]_vars

\* The rounds a resolve tick at time t is to resolve.
EligibleAt(t) ==
  {r \in DOMAIN rounds :
     /\ rounds[r].status = "ACTIVE" \/ rounds[r].status = "LOCKED"
     /\ rounds[r].endTime + BUFFER <= t}

RECURSIVE AttemptsUpTo(_)
AttemptsUpTo(j) ==
  IF j = 0 THEN 0 ELSE Len(jobs[j].attempted) + AttemptsUpTo(j - 1)

\* C27, for tick j: see C27_ResolveEligibility.
C27_Step(j) ==
  (/\ jobs[j].kind = "resolve" /\ jobs[j].pc = "start" /\ jobs'[j].pc # "start"
   /\ ~ InvalidPrice(getPrice)
   /\ jobs'[j].result # ErrQuery)
  => /\ {jobs'[j].expired[k] : k \in 1..Len(jobs'[j].expired)} = EligibleAt(now)
     /\ Len(jobs'[j].expired) = Cardinality(EligibleAt(now))
     /\ EligibleAt(now) # {} => jobs'[j].pc = "await"

C28_Step(j) ==
  (/\ jobs[j].kind = "resolve" /\ jobs[j].pc = "await"
   /\ jobs'[j] # jobs[j]
   /\ resolves[jobs[j].call].result # "ok")
  => IF jobs[j].i < Len(jobs[j].expired)
     THEN /\ jobs'[j].pc = "await"
          /\ Len(resolves') = Len(resolves) + 1
          /\ resolves'[Len(resolves')].roundId = jobs[j].expired[jobs[j].i + 1]
          /\ resolves'[Len(resolves')].pc = "findRound"
     ELSE jobs'[j].pc = "done" /\ jobs'[j].outcome = "returned"

\* C28 (SpecSched): when resolveRound fails for a round of a resolve tick, the
\* tick goes on to call resolveRound for the next round it found, and after
\* the last one it returns: a tick that got to its loop ends with resolveRound
\* called for every round it found.
C28_FailureIsolation ==
  /\ [][\A j \in Jobs : C28_Step(j)]_vars
  /\ [](\A j \in Jobs :
          (jobs[j].kind = "resolve" /\ jobs[j].pc = "done"
           /\ jobs[j].attempted # <<>>)
          => /\ jobs[j].attempted = jobs[j].expired
             /\ jobs[j].outcome = "returned")

\* C28 witness: a tick found both rounds; resolveRound failed for the first,
\* was called for the second and resolved it; the tick returned.
C28_Witness ==
  \E j \in Jobs :
     /\ jobs[j].kind = "resolve" /\ jobs[j].pc = "done"
     /\ jobs[j].expired = <<1, 2>>
     /\ jobs[j].failed = <<1>>
     /\ jobs[j].attempted = <<1, 2>>
     /\ jobs[j].outcome = "returned"
     /\ rounds[2].status = "RESOLVED"
     /\ rounds[1].status # "RESOLVED"

\* C29 (SpecJobs): no tick of the create, lock or resolve job throws: a tick
\* that has ended has returned, also when its query, startRound,
\* autoLockExpiredRounds or resolveRound failed.
C29_JobsNeverThrow ==
  /\ \A j \in Jobs :
        /\ jobs[j].outcome # "threw"
        /\ jobs[j].pc = "done" => jobs[j].outcome = "returned"
  /\ \A c \in StartCalls :
        starts[c].kind = "scheduler"
        => /\ starts[c].outcome # "threw"
           /\ starts[c].pc = "done" => starts[c].outcome = "returned"

\* C29 witness: a create job was refused by startRound with
\* ACTIVE_ROUND_EXISTS, the lock tick's autoLockExpiredRounds failed, and
\* resolveRound failed in the resolve tick; all three have returned.
C29_Witness ==
  /\ \E c \in StartCalls :
        /\ starts[c].kind = "scheduler"
        /\ starts[c].result = ErrActiveRoundExists
        /\ starts[c].outcome = "returned"
  /\ \E j, k \in Jobs :
        /\ jobs[j].kind = "close" /\ jobs[j].result = ErrLock
        /\ jobs[j].outcome = "returned"
        /\ jobs[k].kind = "resolve" /\ jobs[k].failed # <<>>
        /\ jobs[k].outcome = "returned"

\* C30, for tick j: see C30_LockGating.
C30_Step(j) ==
  /\ (jobs[j].kind = "close" /\ jobs[j].pc = "start" /\ jobs'[j].pc # "start")
     => /\ rounds' = rounds
        /\ jobs'[j].pc = "autoLock"
           => \E r \in DOMAIN rounds :
                 rounds[r].status = "ACTIVE" /\ rounds[r].endTime <= now
  /\ (jobs[j].kind = "close" /\ jobs[j].pc = "autoLock" /\ jobs'[j].pc = "done")
     => \A r \in DOMAIN rounds :
           \/ rounds'[r] = rounds[r]
           \/ /\ rounds[r].status = "ACTIVE"
              /\ rounds[r].endTime <= now
              /\ rounds'[r] = [rounds[r] EXCEPT !.status = "LOCKED"]

\* C30 (SpecSched): a lock tick goes on to autoLockExpiredRounds only when a
\* round is ACTIVE with endTime <= now, and changes nothing otherwise; the
\* locking changes only rounds that are ACTIVE with endTime <= now, to LOCKED.
C30_LockGating == [][\A j \in Jobs : C30_Step(j)]_vars

\* C30 witness: a lock tick has locked the round that had ended and left the
\* other round, which ends later, ACTIVE.
C30_Witness ==
  \E j \in Jobs, r, q \in DOMAIN rounds :
     /\ jobs[j].kind = "close" /\ jobs[j].result = "ok"
     /\ \A k \in Jobs : jobs[k].kind = "close"
     /\ resolves = <<>>
     /\ rounds[r].status = "LOCKED" /\ rounds[r].endTime <= jobs[j].at
     /\ rounds[q].status = "ACTIVE" /\ rounds[q].endTime > now

\* -------------------------------------------------------------- the pools
\* The amounts of the rows among rows[n..] on the selector: a side (bySide)
\* or a range.
RECURSIVE RowsSum(_, _, _, _)
RowsSum(rows, n, bySide, sel) ==
  IF n > Len(rows) THEN 0
  ELSE (IF (IF bySide THEN rows[n].side = sel ELSE rows[n].priceRange = sel)
        THEN rows[n].amount ELSE 0)
       + RowsSum(rows, n + 1, bySide, sel)

\* The amounts of round r's committed stakes on the selector, users u on.
RECURSIVE StakedOn(_, _, _, _)
StakedOn(r, bySide, sel, u) ==
  IF u \notin Users THEN 0
  ELSE RowsSum(RowsOf(r, u), 1, bySide, sel) + StakedOn(r, bySide, sel, u + 1)

\* C35 (SpecStake): whatever the interleaving of the submitPrediction calls,
\* poolUp of an UP_DOWN round is the sum of the amounts of its committed UP
\* stakes and poolDown that of its committed DOWN stakes.
C35_BinaryPools ==
  \A r \in DOMAIN rounds :
     rounds[r].mode = "UP_DOWN"
     => /\ rounds[r].poolUp = StakedOn(r, TRUE, "UP", 1)
        /\ rounds[r].poolDown = StakedOn(r, TRUE, "DOWN", 1)

\* C35 witness: two users' calls on the UP side of the UP_DOWN round were both
\* past their read of the round before either wrote, and both committed.
C35_Witness ==
  \E r \in DOMAIN rounds :
     /\ rounds[r].mode = "UP_DOWN"
     /\ Len(RowsOf(r, 1)) = 1 /\ RowsOf(r, 1)[1].side = "UP"
     /\ Len(RowsOf(r, 2)) = 1 /\ RowsOf(r, 2)[1].side = "UP"
     /\ \A c \in SubmitCalls :
           /\ submits[c].result = "ok"
           /\ submits[c].round.poolUp = 0
     /\ rounds[r].poolUp = RowsOf(r, 1)[1].amount + RowsOf(r, 2)[1].amount

\* C36 (SpecStake): whatever the interleaving of the submitPrediction calls,
\* the pool of every declared range of a LEGENDS round is the sum of the
\* amounts of the round's committed stakes on that range.
C36_RangePools ==
  \A r \in DOMAIN rounds :
     rounds[r].mode = "LEGENDS"
     => \A i \in 1..Len(rounds[r].priceRanges) :
           rounds[r].priceRanges[i].pool =
             StakedOn(r, FALSE,
                      Some([min |-> rounds[r].priceRanges[i].min,
                            max |-> rounds[r].priceRanges[i].max]), 1)

\* ------------------------------------------------------------ the status
\* C37 (Spec): whatever the interleaving of submitPrediction, lockRound and
\* resolveRound, a step changes a round's status only from ACTIVE to LOCKED,
\* from ACTIVE to RESOLVED or from LOCKED to RESOLVED, and a step of
\* submitPrediction changes no status.
C37_StatusForward ==
  [][/\ \A r \in DOMAIN rounds :
          \/ rounds'[r].status = rounds[r].status
          \/ rounds[r].status = "ACTIVE" /\ rounds'[r].status = "LOCKED"
          \/ rounds[r].status = "ACTIVE" /\ rounds'[r].status = "RESOLVED"
          \/ rounds[r].status = "LOCKED" /\ rounds'[r].status = "RESOLVED"
     /\ submits' # submits
        => \A r \in DOMAIN rounds : rounds'[r].status = rounds[r].status]_vars

\* C37 witness: a stake was committed on the round while it was ACTIVE, the
\* round was locked, and a resolveRound call that read it LOCKED resolved it.
C37_Witness ==
  \E c \in ResolveCalls, d \in SubmitCalls :
     /\ resolves[c].result = "ok"
     /\ resolves[c].round.status = "LOCKED"
     /\ rounds[resolves[c].roundId].status = "RESOLVED"
     /\ submits[d].result = "ok"
     /\ submits[d].roundId = resolves[c].roundId

\* ------------------------------------------------------------- the frame
\* The Round row with amount added to the pool the call's selector names.
WithStake(row, call) ==
  IF row.mode = "UP_DOWN"
  THEN [row EXCEPT !.poolUp = IF call.side = "UP" THEN @ + call.amount ELSE @,
                   !.poolDown = IF call.side = "DOWN" THEN @ + call.amount ELSE @]
  ELSE [row EXCEPT !.priceRanges =
          [i \in 1..Len(row.priceRanges) |->
             IF /\ row.priceRanges[i].min = call.priceRange[1].min
                /\ row.priceRanges[i].max = call.priceRange[1].max
             THEN [row.priceRanges[i] EXCEPT !.pool = @ + call.amount]
             ELSE row.priceRanges[i]]]

\* C38, for call c: the effect of the step by which the call succeeds.
C38_Step(c) ==
  (submits[c].result # "ok" /\ submits'[c].result = "ok")
  => LET call == submits[c]
         key == <<call.roundId, call.userId>>
     IN /\ balance'[call.userId] = balance[call.userId] - call.amount
        /\ \A u \in Users : u # call.userId => balance'[u] = balance[u]
        /\ predictions'[key] =
             Append(RowsOf(call.roundId, call.userId),
                    [amount |-> call.amount, side |-> call.side,
                     priceRange |-> call.priceRange,
                     won |-> NULL, payout |-> NULL])
        /\ \A k \in DOMAIN predictions : k # key => predictions'[k] = predictions[k]
        /\ DOMAIN predictions' = DOMAIN predictions \cup {key}
        /\ rounds'[call.roundId] = WithStake(rounds[call.roundId], call)
        /\ \A r \in DOMAIN rounds : r # call.roundId => rounds'[r] = rounds[r]

\* C38 (SpecPayout): the step by which a submitPrediction call succeeds takes
\* the amount from its user's balance, adds one stake with the call's round,
\* user, amount and selector and no outcome or payout, adds the amount to the
\* pool of the chosen side or range, and changes no other balance, stake, pool
\* or round; and no step of resolveRound decreases a balance.
C38_SubmitFrame ==
  [][/\ \A c \in SubmitCalls : C38_Step(c)
     /\ resolves' # resolves => \A u \in Users : balance'[u] >= balance[u]]_vars

\* C38 on UP_DOWN rounds only.
C38_SubmitFrameBinary ==
  [][/\ \A c \in SubmitCalls : submits[c].round.mode = "UP_DOWN" => C38_Step(c)
     /\ resolves' # resolves => \A u \in Users : balance'[u] >= balance[u]]_vars

\* -------------------------------------------------------------- the funds
RECURSIVE SumBalances(_, _)
SumBalances(bals, u) ==
  IF u \notin DOMAIN bals THEN 0 ELSE bals[u] + SumBalances(bals, u + 1)

\* The amounts of the rows among rows[n..] that no resolution has settled.
RECURSIVE UnsettledSum(_, _)
UnsettledSum(rows, n) ==
  IF n > Len(rows) THEN 0
  ELSE (IF rows[n].payout = NULL THEN rows[n].amount ELSE 0)
       + UnsettledSum(rows, n + 1)

\* The amounts of the unsettled stakes of round r, users u on.
RECURSIVE HeldIn(_, _)
HeldIn(r, u) ==
  IF u \notin Users THEN 0
  ELSE UnsettledSum(RowsOf(r, u), 1) + HeldIn(r, u + 1)

\* The amounts of the unsettled stakes of the rounds r on that are not RESOLVED.
RECURSIVE HeldUnresolved(_)
HeldUnresolved(r) ==
  IF r \notin DOMAIN rounds THEN 0
  ELSE (IF rounds[r].status # "RESOLVED" THEN HeldIn(r, 1) ELSE 0)
       + HeldUnresolved(r + 1)

\* C40 (Spec): the balances together with the stakes still held in the rounds
\* that are not resolved (those no resolution has settled yet) never exceed
\* the balances there were at the start.
C40_NoFundsCreated ==
  SumBalances(balance, 1) + HeldUnresolved(1) <= SumBalances(balance0, 1)

\* ------------------------------------------------------------- the oracle
ActivePollingTimers ==
  {t \in DOMAIN timers : timers[t].owner = "oracle" /\ timers[t].active}

\* C33 (SpecOracle): at most one polling timer is active; the oracle is
\* running exactly when one is, the one it holds; a timer is created only by
\* a startPolling that finds the oracle not running, one at a time; a
\* stopPolling leaves no timer active and the oracle not running, and changes
\* nothing when the oracle is not running.
C33_PollingLifecycle ==
  /\ [](/\ Cardinality(ActivePollingTimers) <= 1
        /\ oracle.running
           <=> (\E t \in ActivePollingTimers : oracle.pollingInterval = Some(t))
        /\ ~ oracle.running
           => ActivePollingTimers = {} /\ oracle.pollingInterval = NULL)
  /\ [][/\ Len(timers') # Len(timers)
           => /\ ~ oracle.running /\ oracle'.running
              /\ Len(timers') = Len(timers) + 1
              /\ timers'[Len(timers')].active
        /\ (oracle.running /\ ~ oracle'.running)
           => \A t \in DOMAIN timers' : ~ timers'[t].active
        /\ (~ oracle.running /\ ~ oracle'.running)
           => timers' = timers /\ oracle'.pollingInterval = NULL]_vars

\* C33 witness: polling was started, stopped and started again; the first
\* timer is cleared, the second is the only active one.
C33_Witness ==
  /\ Len(timers) = 2
  /\ ~ timers[1].active /\ timers[1].fired = 1
  /\ timers[2].active
  /\ oracle.running /\ oracle.pollingInterval = Some(2)

Fetches == {j \in Jobs : jobs[j].kind = "fetch"}

\* C34 (SpecOracle): a fetchPrice call makes at most MAX_RETRIES attempts,
\* has waited 1000 ms after the first and 2000 ms after the second failed
\* attempt, ends at the first attempt that does not throw, and returns.
C34_BoundedRetry ==
  /\ [](\A j \in Fetches :
          /\ jobs[j].attempt <= 3
          /\ Len(jobs[j].waits) = jobs[j].attempt - 1
          /\ \A k \in 1..Len(jobs[j].waits) :
                jobs[j].waits[k] = IF k = 1 THEN 1000 ELSE 2000
          /\ jobs[j].outcome # "threw"
          /\ jobs[j].pc = "done" => jobs[j].outcome = "returned")
  /\ [][\A j \in Fetches :
          (jobs[j].pc = "get" /\ jobs'[j] # jobs[j])
          => IF jobs'[j].response[1] # "throw"
             THEN jobs'[j].pc = "done" /\ jobs'[j].attempt = jobs[j].attempt
             ELSE IF jobs[j].attempt < 3
             THEN jobs'[j].pc = "get" /\ jobs'[j].attempt = jobs[j].attempt + 1
             ELSE jobs'[j].pc = "done" /\ jobs'[j].attempt = 3]_vars

\* C34 witness: a call whose three attempts all threw has returned, after
\* waits of 1000 and 2000 ms; another ended at its second attempt.
C34_Witness ==
  \E j, k \in Fetches :
     /\ jobs[j].pc = "done" /\ jobs[j].response[1] = "throw"
     /\ jobs[j].attempt = 3 /\ jobs[j].waits = <<1000, 2000>>
     /\ jobs[j].outcome = "returned"
     /\ jobs[k].pc = "done" /\ jobs[k].response[1] = "usd"
     /\ jobs[k].attempt = 2 /\ jobs[k].waits = <<1000>>

\* C39 (SpecOracle): price and lastUpdatedAt are null together; a step changes
\* either only as a fetch that got a response with a non-zero usd, which sets
\* price to it and lastUpdatedAt to now; a fetch that threw or got a response
\* without a price leaves both; isStale() is false exactly when lastUpdatedAt
\* is at most STALENESS_THRESHOLD before now.
C39_OracleState ==
  /\ [](/\ oracle.price = NULL <=> oracle.lastUpdatedAt = NULL
        /\ isStale
           <=> ~ \E t \in (now - STALENESS_THRESHOLD)..now :
                    oracle.lastUpdatedAt = Some(t))
  /\ [][/\ (oracle'.price # oracle.price
            \/ oracle'.lastUpdatedAt # oracle.lastUpdatedAt)
           => \E j \in Fetches :
                 /\ jobs[j].pc = "get" /\ jobs'[j].pc = "done"
                 /\ jobs'[j].response[1] = "usd" /\ jobs'[j].response[2] # 0
                 /\ oracle'.price = Some(jobs'[j].response[2])
                 /\ oracle'.lastUpdatedAt = Some(now)
        /\ \A j \in Fetches :
              (/\ jobs'[j] # jobs[j]
               /\ \/ jobs'[j].response[1] # "usd"
                  \/ jobs'[j].response[2] = 0)
              => /\ oracle'.price = oracle.price
                 /\ oracle'.lastUpdatedAt = oracle.lastUpdatedAt]_vars

\* C39 witness: after a fetch that stored a price at time 1, a fetch failed
\* three times and one got a response without usd: the price is still there.
C39_Witness ==
  \E j, k \in Fetches :
     /\ oracle.price = Some(MidPrice) /\ oracle.lastUpdatedAt = Some(1)
     /\ jobs[j].pc = "done" /\ jobs[j].response = <<"usd", MidPrice>>
     /\ jobs[k].pc = "done" /\ jobs[k].response[1] = "throw"
     /\ jobs[k].attempt = 3
     /\ ~ isStale

\* ---------------------------------------------------- scheduler lifecycle
TimersOf(owner) == {t \in DOMAIN timers : timers[t].owner = owner}

\* C32 for the service owner, whose flag is enabled and whose start()
\* schedules job1 and job2.
C32_Service(owner, enabled, job1, job2) ==
  /\ enabled # "true" => TimersOf(owner) = {} /\ TimersOf(owner)' = {}
  /\ TimersOf(owner)' # TimersOf(owner)
     => /\ enabled = "true"
        /\ TimersOf(owner)' = TimersOf(owner) \cup {Len(timers) + 1, Len(timers) + 2}
        /\ Len(timers') = Len(timers) + 2
        /\ timers'[Len(timers) + 1].job = job1
        /\ timers'[Len(timers) + 2].job = job2
  /\ \A t \in TimersOf(owner) :
        timers'[t].fired # timers[t].fired => owner \notin sched.stopped

\* C32 (SpecCron): a scheduler whose flag is not "true" schedules no job;
\* start() of the round scheduler schedules its create and its lock job,
\* start() of the resolve scheduler its auto-resolve and its cleanup job; and
\* no job of a service fires once the service's stop() has been called.
C32_EnableAndStop ==
  [][/\ C32_Service("round", sched.roundEnabled,
                    "createRound", "closeEligibleRounds")
     /\ C32_Service("resolve", sched.resolveEnabled,
                    "autoResolveRounds", "cleanupOldNotifications")]_vars

\* C32 for the round scheduler alone.
C32_RoundScheduler ==
  [][C32_Service("round", sched.roundEnabled,
                 "createRound", "closeEligibleRounds")]_vars

\* C32 for the resolve scheduler, without what follows stop().
C32_ResolveSchedulerStart ==
  [][/\ sched.resolveEnabled # "true" => TimersOf("resolve")' = {}
     /\ TimersOf("resolve")' # TimersOf("resolve")
        => /\ sched.resolveEnabled = "true"
           /\ Len(timers') = Len(timers) + 2
           /\ timers'[Len(timers) + 1].job = "autoResolveRounds"
           /\ timers'[Len(timers) + 2].job = "cleanupOldNotifications"]_vars

\* ------------------------------------------------------------ liveness
\* C31 (SpecLive): with the ticks firing for ever and the queries and the
\* external calls eventually succeeding, every ACTIVE round whose endTime has
\* passed is eventually LOCKED or RESOLVED, and, the oracle holding a valid
\* price, every ACTIVE or LOCKED round whose endTime + buffer has passed is
\* eventually RESOLVED.
C31_Liveness ==
  \A r \in 1..2 :
    /\ (rounds[r].status = "ACTIVE" /\ rounds[r].endTime <= now)
         ~> (rounds[r].status \in {"LOCKED", "RESOLVED"})
    /\ (/\ rounds[r].status \in {"ACTIVE", "LOCKED"}
        /\ rounds[r].endTime + BUFFER <= now
        /\ ~ InvalidPrice(getPrice))
         ~> (rounds[r].status = "RESOLVED")

\* C31 witness: round 1 is RESOLVED, after its endTime + buffer, by a tick that
\* followed a failed one, its stake credited by both, and round 2 is RESOLVED.
C31_Witness ==
  /\ rounds[1].status = "RESOLVED" /\ rounds[2].status = "RESOLVED"
  /\ credited[<<1, 1>>] >= 2
  /\ rounds[1].resolvedAt # NULL
  /\ rounds[1].resolvedAt[1] >= rounds[1].endTime + BUFFER

\* The fairness of SpecLive is weak fairness of LiveCall(c): its enabling
\* condition and its steps are the ones FairLive names.
C31_FairnessIsWeak ==
  /\ [](\A c \in 1..2 : CallPending(c) <=> ENABLED <<LiveCall(c)>>_vars)
  /\ [][\A c \in 1..2 : CallMoved(c) <=> LiveCall(c)]_vars

====
